---- MODULE Spec2Model ----
(***************************************************************************)
(* A model of the MySQL binlog connector of ReadySet                       *)
(* (replicators/src/mysql_connector/connector.rs): the binlog position     *)
(* codec and ordering, and the next_action loop of MySqlBinlogConnector.  *)
(*                                                                         *)
(* Numbers wider than TLC's integers (u32, u64, u128) are little-endian    *)
(* sequences of 16-bit limbs: a u32 is 2 limbs, a u64 is 4, a u128 is 8.   *)
(* Strings are sequences of one-character strings.                        *)
(***************************************************************************)
EXTENDS Integers, Sequences, FiniteSets, TLC

\* ------------------------------------------------------------------------
\* Bounds of the model
\* ------------------------------------------------------------------------

\* Longest generated binlog suffix (the listed long suffixes come on top).
MaxSuffixLen == 2

\* Events a session reads before the model stops it.
MaxEvents == 4

\* Most rows of a rows event.
MaxRows == 2

\* Cells of a row handed to binlog_row_to_noria_row.
MaxCells == 2

\* Digits of the fraction of a timestamp payload.
MaxFracLen == 6

\* Connectors running side by side.
MaxSessions == 2

\* Methods called on the writers of one response, the last one apart.
MaxCalls == 4

\* Columns of a resultset.
MaxColumns == 2

\* Columns of the longest resultset written in the binary protocol byte by byte.
MaxBitmapColumns == 7

\* ------------------------------------------------------------------------
\* Option and Result values
\* ------------------------------------------------------------------------

None == [some |-> FALSE]

Some(x) == [some |-> TRUE, v |-> x]

Ok(x) == [ok |-> TRUE, v |-> x]

Err(e) == [ok |-> FALSE, err |-> e]

\* ------------------------------------------------------------------------
\* Fixed-width unsigned integers as limb sequences
\* ------------------------------------------------------------------------

LimbBits == 4 * 4

Limb == 2 ^ LimbBits

U32Limbs == 32 \div LimbBits

U64Limbs == 64 \div LimbBits

U128Limbs == 128 \div LimbBits

Pow2(k) == 2 ^ k

\* The n-limb number of a natural below 2^31.
RECURSIVE ToLimbs(_, _)
ToLimbs(v, n) ==
    IF n = 0 THEN <<>> ELSE <<v % Limb>> \o ToLimbs(v \div Limb, n - 1)

\* The natural of a limb sequence whose value is below 2^31.
RECURSIVE ToNat(_)
ToNat(l) ==
    IF l = <<>> THEN 0
    ELSE IF \A i \in 1..Len(l) : l[i] = 0 THEN 0
    ELSE l[1] + Limb * ToNat(Tail(l))

\* An `as` cast between unsigned widths: keep the low n limbs, zero-extend.
Cast(l, n) == [i \in 1..n |-> IF i <= Len(l) THEN l[i] ELSE 0]

LimbAt(l, i) == IF i >= 1 /\ i <= Len(l) THEN l[i] ELSE 0

\* l << k within Len(l) limbs (bits shifted out are dropped).
Shl(l, k) ==
    LET q == k \div LimbBits
        r == k % LimbBits
    IN  [i \in 1..Len(l) |->
            (LimbAt(l, i - q) % Pow2(LimbBits - r)) * Pow2(r)
            + (LimbAt(l, i - q - 1) \div Pow2(LimbBits - r))]

\* l >> k within Len(l) limbs.
Shr(l, k) ==
    LET q == k \div LimbBits
        r == k % LimbBits
    IN  [i \in 1..Len(l) |->
            (LimbAt(l, i + q) \div Pow2(r))
            + (LimbAt(l, i + q + 1) % Pow2(r)) * Pow2(LimbBits - r)]

\* a + b limb by limb from limb i with carry c; the final carry is dropped
\* (the sum of the encoding never reaches 2^128).
RECURSIVE AddFrom(_, _, _, _)
AddFrom(a, b, i, c) ==
    IF i > Len(a) THEN <<>>
    ELSE LET s == a[i] + b[i] + c
         IN  <<s % Limb>> \o AddFrom(a, b, i + 1, s \div Limb)

Add(a, b) == AddFrom(a, b, 1, 0)

\* a * m + c for small m, c: the limbs and the carry out of the top limb.
RECURSIVE MulAddFrom(_, _, _, _)
MulAddFrom(a, m, i, c) ==
    IF i > Len(a) THEN [limbs |-> <<>>, carry |-> c]
    ELSE LET s == a[i] * m + c
             rest == MulAddFrom(a, m, i + 1, s \div Limb)
         IN  [limbs |-> <<s % Limb>> \o rest.limbs, carry |-> rest.carry]

\* a divided by a small d, from the top limb down: quotient and remainder.
RECURSIVE DivFrom(_, _, _, _)
DivFrom(a, d, i, r) ==
    IF i = 0 THEN [q |-> <<>>, r |-> r]
    ELSE LET cur == r * Limb + a[i]
             rest == DivFrom(a, d, i - 1, cur % d)
         IN  [q |-> rest.q \o <<cur \div d>>, r |-> rest.r]

IsZero(l) == \A i \in 1..Len(l) : l[i] = 0

\* Ordering of two numbers of the same width, from the top limb.
RECURSIVE CmpFrom(_, _, _)
CmpFrom(a, b, i) ==
    IF i = 0 THEN "Equal"
    ELSE IF a[i] < b[i] THEN "Less"
    ELSE IF a[i] > b[i] THEN "Greater"
    ELSE CmpFrom(a, b, i - 1)

Cmp(a, b) == CmpFrom(a, b, Len(a))

\* ------------------------------------------------------------------------
\* Strings: str::parse, format!, str::rsplit_once
\* ------------------------------------------------------------------------

DigitChars == <<"0", "1", "2", "3", "4", "5", "6", "7", "8", "9">>

IsDigit(c) == \E i \in 1..Len(DigitChars) : DigitChars[i] = c

DigitVal(c) == (CHOOSE i \in 1..Len(DigitChars) : DigitChars[i] = c) - 1

\* The checked accumulation of <uN as FromStr>: every character a decimal
\* digit, and acc * 10 + digit must fit the width.
RECURSIVE ParseDigits(_, _)
ParseDigits(s, acc) ==
    IF s = <<>> THEN Ok(acc)
    ELSE IF ~IsDigit(Head(s)) THEN Err("InvalidDigit")
    ELSE LET r == MulAddFrom(acc, 10, 1, DigitVal(Head(s)))
         IN  IF r.carry # 0 THEN Err("PosOverflow")
             ELSE ParseDigits(Tail(s), r.limbs)

\* str::parse::<uN>() for an unsigned width of n limbs: the empty string and
\* a lone sign fail, one leading "+" is accepted, "-" is an invalid digit.
parse(s, n) ==
    IF s = <<>> THEN Err("Empty")
    ELSE IF Len(s) = 1 /\ (Head(s) = "+" \/ Head(s) = "-") THEN Err("InvalidDigit")
    ELSE IF Head(s) = "+" THEN ParseDigits(Tail(s), ToLimbs(0, n))
    ELSE ParseDigits(s, ToLimbs(0, n))

\* The decimal digits of a number, most significant first ("0" for zero).
RECURSIVE FormatDec(_)
FormatDec(l) ==
    LET d == DivFrom(l, 10, Len(l), 0)
    IN  IF IsZero(d.q) THEN <<DigitChars[d.r + 1]>>
        ELSE FormatDec(d.q) \o <<DigitChars[d.r + 1]>>

\* format!("{:0w$}"): zero-padded on the left to at least w characters.
RECURSIVE ZeroPad(_, _)
ZeroPad(s, w) == IF Len(s) >= w THEN s ELSE ZeroPad(<<"0">> \o s, w)

\* str::rsplit_once('.'): split at the last '.', None when there is none.
rsplit_once(s) ==
    IF \A i \in 1..Len(s) : s[i] # "."
    THEN None
    ELSE LET k == CHOOSE i \in 1..Len(s) :
                      s[i] = "." /\ \A j \in (i + 1)..Len(s) : s[j] # "."
         IN  Some(<<SubSeq(s, 1, k - 1), SubSeq(s, k + 1, Len(s))>>)

\* ------------------------------------------------------------------------
\* Binlog positions: ordering and the ReplicationOffset packing
\* ------------------------------------------------------------------------

\* Bit of the u128 offset where the suffix width starts.
SuffixLenShift == 123

\* Bit of the u128 offset where the numeric suffix starts.
SuffixShift == 64

\* Widest suffix the packing accepts.
MaxSuffixWidth == 17

BinlogPosition(file, pos) == [binlog_file |-> file, position |-> pos]

\* impl PartialOrd for BinlogPosition: None, or Some of Less, Equal, Greater.
partial_cmp(self, other) ==
    IF self.binlog_file = other.binlog_file
    THEN Some(Cmp(self.position, other.position))
    ELSE LET s == rsplit_once(self.binlog_file)
             o == rsplit_once(other.binlog_file)
         IN  IF ~s.some \/ ~o.some THEN None
             ELSE IF s.v[1] # o.v[1] THEN None
             ELSE LET suffix == parse(s.v[2], U64Limbs)
                      other_suffix == parse(o.v[2], U64Limbs)
                  IN  IF ~suffix.ok \/ ~other_suffix.ok THEN None
                      ELSE Some(Cmp(suffix.v, other_suffix.v))

\* self >= other of PartialOrd.
ge(self, other) ==
    partial_cmp(self, other) \in {Some("Greater"), Some("Equal")}

\* The packing with the width three bits too low, inside the suffix field.
pack_width_misplaced(suffix_len, suffix, position) ==
    Add(Add(Shl(ToLimbs(suffix_len, U128Limbs), SuffixLenShift - 3),
            Shl(suffix, SuffixShift)),
        Cast(position, U128Limbs))

\* The packing with the numeric suffix added where the position is.
pack_suffix_unshifted(suffix_len, suffix, position) ==
    Add(Add(Shl(ToLimbs(suffix_len, U128Limbs), SuffixLenShift), suffix),
        Cast(position, U128Limbs))

\* The sum that packs width, numeric suffix and position into the u128.
pack(suffix_len, suffix, position) ==
    Add(Add(Shl(ToLimbs(suffix_len, U128Limbs), SuffixLenShift),
            Shl(suffix, SuffixShift)),
        Cast(position, U128Limbs))

\* impl TryFrom<&BinlogPosition> for ReplicationOffset.
try_from(value) ==
    LET sp == rsplit_once(value.binlog_file)
    IN  IF ~sp.some THEN Err("Invalid binlog name")
        ELSE LET basename == sp.v[1]
                 suffix_len == Len(sp.v[2])
                 suffix == parse(sp.v[2], U128Limbs)
             IN  IF suffix_len > MaxSuffixWidth THEN Err("Invalid binlog suffix")
                 ELSE IF ~suffix.ok THEN Err("Invalid binlog suffix")
                 ELSE Ok([offset |-> pack(suffix_len, suffix.v, value.position),
                          replication_log_name |-> basename])

\* impl From<&ReplicationOffset> for BinlogPosition.
from(val) ==
    LET suffix_len == ToNat(Cast(Shr(val.offset, SuffixLenShift), U64Limbs))
        suffix == Cast(Shr(val.offset, SuffixShift), U32Limbs)
        position == Cast(val.offset, U32Limbs)
    IN  BinlogPosition(
            val.replication_log_name \o <<".">> \o ZeroPad(FormatDec(suffix), suffix_len),
            position)

\* ------------------------------------------------------------------------
\* Inputs of the codec
\* ------------------------------------------------------------------------

\* The string of a sequence of decimal digits.
Dec(ds) == [i \in 1..Len(ds) |-> DigitChars[ds[i] + 1]]

SuffixChars == {"0", "1", "+"}

\* Every string over SuffixChars of at most MaxSuffixLen characters.
GenSuffixes ==
    UNION {[1..n -> SuffixChars] : n \in 0..MaxSuffixLen}

\* Suffixes at the edges of the packing: the six-digit form of mysqld,
\* u32::MAX and u32::MAX + 1, the largest 17-digit number, the smallest
\* 18-digit number, and u64::MAX + 1.
LongSuffixes ==
    { Dec(<<0, 0, 0, 1, 2, 3>>),
      Dec(<<4, 2, 9, 4, 9, 6, 7, 2, 9, 5>>),
      Dec(<<4, 2, 9, 4, 9, 6, 7, 2, 9, 6>>),
      Dec(<<9, 9, 9, 9, 9, 9, 9, 9, 9, 9, 9, 9, 9, 9, 9, 9, 9>>),
      Dec(<<1, 0, 0, 0, 0, 0, 0, 0, 0, 0, 0, 0, 0, 0, 0, 0, 0, 0>>),
      Dec(<<1, 8, 4, 4, 6, 7, 4, 4, 0, 7, 3, 7, 0, 9, 5, 5, 1, 6, 1, 6>>) }

Basenames == {<<"a">>, <<"b">>}

\* File names without a '.', and one whose basename holds a '.'.
OddFiles == {<<"a">>, <<"a", ".", "b", ".", "1">>}

Files ==
    {bn \o <<".">> \o sx : bn \in Basenames, sx \in GenSuffixes \cup LongSuffixes}
    \cup OddFiles

U32Max == <<Limb - 1, Limb - 1>>

Offsets == {ToLimbs(0, U32Limbs), ToLimbs(100, U32Limbs), U32Max}

Positions == {BinlogPosition(f, p) : f \in Files, p \in Offsets}

\* ------------------------------------------------------------------------
\* State
\* ------------------------------------------------------------------------

VARIABLES
    \* The codec applied to a pair of positions.
    a,              \* the first position
    b,              \* the second position
    ord,            \* partial_cmp(a, b), once computed
    enc,            \* try_from(a), once computed
    dec,            \* from(enc), once computed
    cpc,            \* what has been computed so far
    \* The coercion of binlog rows applied to an input.
    overflow_checks, \* the build panics on integer overflow (or else wraps)
    arg,            \* the row and its table map, or the value, kind and meta
    out,            \* what the coercion returned, once computed
    \* mysql-srv: QueryResultWriter, RowWriter and the PacketWriter under them.
    wpc,            \* which writer the caller holds: "result" (QueryResultWriter),
                    \* "rows" (RowWriter), "done" (given up), "failed" (I/O error)
    is_bin,         \* QueryResultWriter.is_bin: the binary protocol
    last_end,       \* QueryResultWriter.last_end: Option<Finalizer>
    columns,        \* RowWriter.columns
    col,            \* RowWriter.col
    finished,       \* RowWriter.finished
    last_status_flags, \* RowWriter.last_status_flags
    row_data,       \* RowWriter.row_data: Option of what the row holds so far
    packets,        \* the packets handed to the PacketWriter, in order
    queue_len,      \* PacketWriter: row packets enqueued and not flushed
    wret,           \* what the last method returned
    \* What the caller did with the writers.
    nsets,          \* resultsets begun on the QueryResultWriter
    calls,          \* methods called on the writers so far
    ends,           \* end_row and write_row calls on the RowWriter
    given,          \* values handed over since the previous end of a row
    last_given,     \* values handed over for the row that was ended last
    \* The connectors of the process.
    running,        \* the connector whose fields the variables below hold
    parked,         \* the fields of the other connectors, by connector
    \* MySqlBinlogConnector.
    server_id,      \* Option<u32>: the configured server id
    wire,           \* what was done on the connection during connect, in order
    reader,         \* table maps of binlog::EventStreamReader, by table id
    next_position,  \* BinlogPosition the session has reached
    current_gtid,   \* Option<u64>: gno of the current transaction
    failures,       \* the counter recorded::REPLICATOR_FAILURE
    \* The next_action call in progress and the results of the calls.
    pc,             \* where connect is ("new" to "dump_sent", "connect_failed"),
                    \* then "idle", "loop" (inside next_action_inner), "panicked"
    until,          \* Option<ReplicationOffset> of the call in progress
    ret,            \* what the last finished call returned
    prev_ok,        \* the Ok result returned before ret
    \* The event stream of the connection.
    nread,          \* events read from the connection so far
    in_call,        \* events read by the call in progress
    ev,             \* the last packet read
    seen_gno,       \* gno of the last GTID_EVENT the server sent
    in_order,       \* no event so far moved the position backwards
    current_offset  \* the first argument of the last next_action call

codecVars == <<a, b, ord, enc, dec, cpc>>

coerceVars == <<overflow_checks, arg, out>>

fleetVars == <<running, parked>>

writerVars ==
    <<wpc, is_bin, last_end, columns, col, finished, last_status_flags, row_data,
      packets, queue_len, wret, nsets, calls, ends, given, last_given>>

sessionVars ==
    <<server_id, wire, reader, next_position, current_gtid, failures, pc, until, ret, prev_ok,
      nread, in_call, ev, seen_gno, in_order, current_offset>>

vars ==
    <<a, b, ord, enc, dec, cpc, overflow_checks, arg, out, wpc, is_bin, last_end,
      columns, col, finished, last_status_flags, row_data, packets, queue_len, wret,
      nsets, calls, ends, given, last_given, running, parked, server_id, wire, reader, next_position, current_gtid, failures,
      pc, until, ret, prev_ok, nread, in_call, ev, seen_gno, in_order,
      current_offset>>

\* ------------------------------------------------------------------------
\* Binlog events
\* ------------------------------------------------------------------------

U32(v) == ToLimbs(v, U32Limbs)

U64(v) == ToLimbs(v, U64Limbs)

\* The variants of binlog::consts::EventType the connector names; every
\* other known variant takes the catch-all arm.
RowsV1Types ==
    {"WRITE_ROWS_EVENT_V1", "UPDATE_ROWS_EVENT_V1", "DELETE_ROWS_EVENT_V1"}

OtherTypes == {"XID_EVENT", "ANONYMOUS_GTID_EVENT"}

EventTypes ==
    {"ROTATE_EVENT", "QUERY_EVENT", "TABLE_MAP_EVENT", "WRITE_ROWS_EVENT",
     "UPDATE_ROWS_EVENT", "DELETE_ROWS_EVENT", "GTID_EVENT"}
    \cup RowsV1Types \cup OtherTypes

\* A packet of the stream: the status byte, the header, and the footer with
\* the checksum the server wrote; crc is the CRC32 of the event's bytes.
Packet(type, log_pos) ==
    [status |-> 0, type |-> type, log_pos |-> log_pos,
     alg |-> "CRC32", checksum |-> Some(1), crc |-> 1]

RotateEvent(log_pos, name, position) ==
    Packet("ROTATE_EVENT", log_pos) @@ [name |-> name, position |-> position]

QueryEvent(log_pos, names, query) ==
    Packet("QUERY_EVENT", log_pos) @@ [updated_db_names |-> names, query |-> query]

TableMapEvent(log_pos, table_id, db, table, types, metadata) ==
    Packet("TABLE_MAP_EVENT", log_pos)
    @@ [table_id |-> table_id, database_name |-> db, table_name |-> table,
        column_types |-> types, column_metadata |-> metadata]

RowsEvent(type, log_pos, table_id, rows) ==
    Packet(type, log_pos) @@ [table_id |-> table_id, rows |-> rows]

GtidEvent(log_pos, gno) == Packet("GTID_EVENT", log_pos) @@ [gno |-> gno]

\* Header::event_type(): the variant, or the unknown type byte as the error.
event_type(e) == IF e.type \in EventTypes THEN Ok(e.type) ELSE Err(e.type)

\* The validation that accepts every footer.
validate_event_checksum_skipped(event) == TRUE

\* MySqlBinlogConnector::validate_event_checksum.
validate_event_checksum(event) ==
    IF event.alg = "CRC32"
    THEN IF event.checksum.some THEN event.checksum.v = event.crc ELSE FALSE
    ELSE TRUE

\* ------------------------------------------------------------------------
\* Rows
\* ------------------------------------------------------------------------

\* A call that panics: neither a value nor an error comes back.
Panic(m) == [ok |-> FALSE, err |-> m, panic |-> TRUE]

IsPanic(r) == ~r.ok /\ "panic" \in DOMAIN r

\* mysql_common::value::Value.
SignedInt(n) == [t |-> "Int", n |-> n]

Bytes(buf) == [t |-> "Bytes", b |-> buf]

\* Value::Float of a number DfValue has no place for.
NotANumber == [t |-> "Float", nan |-> TRUE]

\* DfValue.
DfNone == [t |-> "None"]

DfInt(n) == [t |-> "Int", n |-> n]

DfText(s) == [t |-> "Text", s |-> s]

DfByteArray(data) == [t |-> "ByteArray", data |-> data]

DfTimestamp(time) == [t |-> "TimestampTz", secs |-> time.secs, nsecs |-> time.nsecs]

\* DfValue::try_from(&Value): a float that is not a number is refused.
try_into(val) ==
    IF val.t = "Int" THEN Ok(DfInt(val.n))
    ELSE IF val.t = "Bytes" THEN Ok(DfText(val.b))
    ELSE Err("Unable to coerce value")

\* An i64 as sign and magnitude (the magnitude in U64Limbs limbs).
I64(neg, mag) == [neg |-> neg /\ ~IsZero(mag), mag |-> mag]

\* The top bit of a 64-bit magnitude is set: it is 2^63 or more.
TopBit(mag) == mag[U64Limbs] >= Limb \div 2

\* str::parse::<i64>(): an optional sign, then digits; the value must lie in
\* -2^63 .. 2^63 - 1.
parse_i64(s) ==
    IF s = <<>> THEN Err("Empty")
    ELSE IF Len(s) = 1 /\ (Head(s) = "+" \/ Head(s) = "-") THEN Err("InvalidDigit")
    ELSE LET neg == Head(s) = "-"
             digits == IF Head(s) = "+" \/ Head(s) = "-" THEN Tail(s) ELSE s
             mag == ParseDigits(digits, ToLimbs(0, U64Limbs))
         IN  IF ~mag.ok
             THEN (IF mag.err = "PosOverflow" /\ neg THEN Err("NegOverflow") ELSE mag)
             ELSE IF ~TopBit(mag.v) THEN Ok(I64(neg, mag.v))
             ELSE IF neg /\ mag.v = Shl(ToLimbs(1, U64Limbs), 63)
             THEN Ok(I64(neg, mag.v))
             ELSE Err(IF neg THEN "NegOverflow" ELSE "PosOverflow")

\* str::split_once('.'): split at the first '.', None when there is none.
split_once(s) ==
    IF \A i \in 1..Len(s) : s[i] # "."
    THEN None
    ELSE LET k == CHOOSE i \in 1..Len(s) :
                      s[i] = "." /\ \A j \in 1..(i - 1) : s[j] # "."
         IN  Some(<<SubSeq(s, 1, k - 1), SubSeq(s, k + 1, Len(s))>>)

\* The days chrono::NaiveDate holds, counted from 1970-01-01:
\* -262144-01-01 to 262143-12-31.
MinDays == 96465659

MaxDays == 95026601

\* The nanosecond part chrono::NaiveTime refuses.
NanosLimit == 2000000000

\* i64::div_euclid(86400) and rem_euclid(86400) of the seconds: the day
\* (sign and magnitude) and the second of the day.
DayAndSecond(secs) ==
    LET s == DivFrom(secs.mag, 60, U64Limbs, 0)
        m == DivFrom(s.q, 60, U64Limbs, 0)
        h == DivFrom(m.q, 24, U64Limbs, 0)
        rem == h.r * 3600 + m.r * 60 + s.r
    IN  IF secs.neg /\ rem # 0
        THEN [neg |-> TRUE, days |-> MulAddFrom(h.q, 1, 1, 1).limbs,
              second |-> 86400 - rem]
        ELSE [neg |-> secs.neg /\ ~IsZero(h.q), days |-> h.q, second |-> rem]

\* chrono::NaiveDateTime::from_timestamp(secs, nsecs): panics on a day out
\* of the range of NaiveDate and on nsecs of two seconds or more.
from_timestamp(secs, nsecs) ==
    LET at == DayAndSecond(secs)
        limit == ToLimbs(IF at.neg THEN MinDays ELSE MaxDays, U64Limbs)
    IN  IF Cmp(at.days, limit) = "Greater"
               \/ Cmp(nsecs, ToLimbs(NanosLimit, U32Limbs)) # "Less"
        THEN Panic("invalid or out-of-range datetime")
        ELSE Ok([secs |-> secs, nsecs |-> nsecs])

\* The timestamp of a time that from_timestamp produced.
TimeToDf(time) == IF time.ok THEN Ok(DfTimestamp(time.v)) ELSE time

\* The coercion that turns the epoch 0 into the timestamp of 1970-01-01.
epoch_to_df_keeps_zero(epoch) == TimeToDf(from_timestamp(epoch, ToLimbs(0, U32Limbs)))

\* A TIMESTAMP2 value of precision 0, the seconds parsed: 0 is the reserved
\* '0000-00-00 00:00:00' and becomes DfValue::None.
epoch_to_df(epoch) ==
    IF IsZero(epoch.mag) THEN Ok(DfNone)
    ELSE TimeToDf(from_timestamp(epoch, ToLimbs(0, U32Limbs)))

\* The multiplication that reads the fraction as microseconds.
usecs_to_nsecs_by_1000(usecs) ==
    LET r == MulAddFrom(usecs, 1000, 1, 0)
    IN  IF r.carry = 0 THEN Ok(r.limbs)
        ELSE IF overflow_checks THEN Panic("attempt to multiply with overflow")
        ELSE Ok(r.limbs)

\* usecs * 32 in u32: on overflow the build with overflow checks panics,
\* the build without them keeps the low 32 bits.
usecs_to_nsecs(usecs) ==
    LET r == MulAddFrom(usecs, 32, 1, 0)
    IN  IF r.carry = 0 THEN Ok(r.limbs)
        ELSE IF overflow_checks THEN Panic("attempt to multiply with overflow")
        ELSE Ok(r.limbs)

\* A TIMESTAMP2 value of another precision: "<secs>.<usecs>".
fraction_to_df(buf) ==
    LET parts == split_once(buf)
    IN  IF ~parts.some THEN Panic("unwrap on None")
        ELSE LET secs == parse_i64(parts.v[1])
                 usecs == parse(parts.v[2], U32Limbs)
             IN  IF ~secs.ok \/ ~usecs.ok THEN Panic("unwrap on Err")
                 ELSE LET nsecs == usecs_to_nsecs(usecs.v)
                      IN  IF ~nsecs.ok THEN nsecs
                          ELSE TimeToDf(from_timestamp(secs.v, nsecs.v))

binlog_val_to_noria_val(val, col_kind, meta) ==
    IF val.t # "Bytes" THEN try_into(val)
    ELSE IF col_kind = "TIMESTAMP2" /\ meta = <<0>>
    THEN LET epoch == parse_i64(val.b)
         IN  IF ~epoch.ok THEN Panic("unwrap on Err") ELSE epoch_to_df(epoch.v)
    ELSE IF col_kind = "TIMESTAMP2" THEN fraction_to_df(val.b)
    ELSE try_into(val)

\* One cell of a row.
Cell(binlog_row, tme, idx) ==
    LET cell == binlog_row[idx]
    IN  IF cell.kind = "Value"
        THEN IF idx > Len(tme.column_types) THEN Panic("unwrap on None")
             ELSE IF tme.column_types[idx] = "Unknown"
             THEN Err("Unable to get column type")
             ELSE IF idx > Len(tme.column_metadata) THEN Panic("unwrap on None")
             ELSE binlog_val_to_noria_val(cell.val, tme.column_types[idx],
                                          tme.column_metadata[idx])
        ELSE IF cell.kind = "Jsonb"
        THEN IF cell.json.ok THEN Ok(DfText(cell.json.v))
             ELSE IF cell.json.err = "Opaque" THEN Ok(DfByteArray(cell.data))
             ELSE Err(cell.json.err)
        ELSE Err("Expected a value in WRITE_ROWS_EVENT")

\* The row that leaves out the cells that fail.
RECURSIVE RowFrom_skips_failures(_, _, _)
RowFrom_skips_failures(binlog_row, tme, idx) ==
    IF idx > Len(binlog_row) THEN Ok(<<>>)
    ELSE LET one == Cell(binlog_row, tme, idx)
             rest == RowFrom_skips_failures(binlog_row, tme, idx + 1)
         IN  IF ~one.ok THEN rest ELSE Ok(<<one.v>> \o rest.v)

\* The cells of a row converted in order, stopping at the first failure.
RECURSIVE RowFrom(_, _, _)
RowFrom(binlog_row, tme, idx) ==
    IF idx > Len(binlog_row) THEN Ok(<<>>)
    ELSE LET one == Cell(binlog_row, tme, idx)
         IN  IF ~one.ok THEN one
             ELSE LET rest == RowFrom(binlog_row, tme, idx + 1)
                  IN  IF ~rest.ok THEN rest ELSE Ok(<<one.v>> \o rest.v)

binlog_row_to_noria_row(binlog_row, tme) == RowFrom(binlog_row, tme, 1)

\* ------------------------------------------------------------------------
\* One turn of the loop of next_action_inner
\* ------------------------------------------------------------------------

\* What a turn decides: the session fields it leaves and how it ends:
\* "return" an action, fall to the "check_until" after the match, "continue"
\* with the next turn, return an "err", or "panic".
Outcome(flow, position, gtid, fails, payload) ==
    [flow |-> flow, next_position |-> position, current_gtid |-> gtid,
     failures |-> fails, payload |-> payload]

\* The iteration that leaves the position where it was.
Advanced_keeps_position(e) == next_position

\* self.next_position.position = binlog_event.header().log_pos()
Advanced(e) == [next_position EXCEPT !.position = e.log_pos]

\* The turn that puts the position back when its arm fails.
Stay_rolls_back_on_error(flow, e, payload) ==
    Outcome(flow, IF flow = "err" THEN next_position ELSE Advanced(e),
            current_gtid, failures, payload)

Stay(flow, e, payload) ==
    Outcome(flow, Advanced(e), current_gtid, failures, payload)

LogPosition == [type |-> "LogPosition"]

DdlChange(schema, changes) ==
    [type |-> "DdlChange", schema |-> schema, changes |-> changes]

TableAction(tme, actions, txid) ==
    [type |-> "TableAction",
     table |-> [schema |-> Some(tme.database_name), name |-> tme.table_name],
     actions |-> actions, txid |-> txid]

Insert(row) == [op |-> "Insert", row |-> row]

DeleteRow(row) == [op |-> "DeleteRow", row |-> row]

\* EventStreamReader::get_tme.
get_tme(table_id) == reader[table_id]

\* u32::try_from(u64).
u32_try_from(n) ==
    IF IsZero(SubSeq(n, U32Limbs + 1, U64Limbs)) THEN Ok(Cast(n, U32Limbs))
    ELSE Err("TryFromIntError")

\* ChangeList::from_str: the statements the dialect parser accepts.
from_str(query) ==
    IF query \in {"CREATE TABLE t (x int)", "DROP TABLE t"}
    THEN Ok(<<query>>)
    ELSE Err("parse error")

\* The ROTATE arm that keeps the log_pos of the header as the new offset.
rotate_arm_keeps_header_offset(e) ==
    LET position == u32_try_from(e.position)
    IN  IF ~position.ok THEN Stay("panic", e, "unwrap")
        ELSE Outcome("return", BinlogPosition(e.name, e.log_pos),
                     current_gtid, failures, LogPosition)

\* The ROTATE arm that takes the new offset and keeps the old file name.
rotate_arm_keeps_file(e) ==
    LET position == u32_try_from(e.position)
    IN  IF ~position.ok THEN Stay("panic", e, "unwrap")
        ELSE Outcome("return", BinlogPosition(next_position.binlog_file, position.v),
                     current_gtid, failures, LogPosition)

rotate_arm(e) ==
    LET position == u32_try_from(e.position)
    IN  IF ~position.ok THEN Stay("panic", e, "unwrap")
        ELSE Outcome("return", BinlogPosition(e.name, position.v),
                     current_gtid, failures, LogPosition)

\* The QUERY arm that takes the last listed name as the schema.
query_arm_takes_last_name(e) ==
    IF ~(e.updated_db_names.some /\ e.updated_db_names.v # <<>>)
    THEN Stay("continue", e, "no schema")
    ELSE LET names == e.updated_db_names.v
             changes == from_str(e.query)
         IN  IF changes.ok
             THEN Stay("return", e, DdlChange(names[Len(names)], changes.v))
             ELSE Outcome("continue", Advanced(e), current_gtid, failures + 1,
                          "parse error")

\* The QUERY arm that propagates the parse error.
query_arm_fails_on_parse_error(e) ==
    IF ~(e.updated_db_names.some /\ e.updated_db_names.v # <<>>)
    THEN Stay("continue", e, "no schema")
    ELSE LET schema == Head(e.updated_db_names.v)
             changes == from_str(e.query)
         IN  IF changes.ok
             THEN Stay("return", e, DdlChange(schema, changes.v))
             ELSE Stay("err", e, "parse error")

query_arm(e) ==
    IF ~(e.updated_db_names.some /\ e.updated_db_names.v # <<>>)
    THEN Stay("continue", e, "no schema")
    ELSE LET schema == Head(e.updated_db_names.v)
             changes == from_str(e.query)
         IN  IF changes.ok
             THEN Stay("return", e, DdlChange(schema, changes.v))
             ELSE Outcome("continue", Advanced(e), current_gtid, failures + 1,
                          "parse error")

table_map_arm(e) == Stay("check_until", e, "unhandled")

RECURSIVE inserted_rows(_, _, _)
inserted_rows(rows, tme, i) ==
    IF i > Len(rows) THEN Ok(<<>>)
    ELSE IF ~rows[i].ok THEN rows[i]
    ELSE IF ~rows[i].v[2].some THEN Err("Missing data in WRITE_ROWS_EVENT")
    ELSE LET row == binlog_row_to_noria_row(rows[i].v[2].v, tme)
         IN  IF ~row.ok THEN row
             ELSE LET rest == inserted_rows(rows, tme, i + 1)
                  IN  IF ~rest.ok THEN rest
                      ELSE Ok(<<Insert(row.v)>> \o rest.v)

\* The UPDATE rows with the Insert pushed before the DeleteRow.
RECURSIVE updated_rows_insert_first(_, _, _)
updated_rows_insert_first(rows, tme, i) ==
    IF i > Len(rows) THEN Ok(<<>>)
    ELSE IF ~rows[i].ok THEN rows[i]
    ELSE IF ~rows[i].v[1].some THEN Err("Missing before rows in UPDATE_ROWS_EVENT")
    ELSE LET before == binlog_row_to_noria_row(rows[i].v[1].v, tme)
         IN  IF ~before.ok THEN before
             ELSE IF ~rows[i].v[2].some
             THEN Err("Missing after rows in UPDATE_ROWS_EVENT")
             ELSE LET after == binlog_row_to_noria_row(rows[i].v[2].v, tme)
                  IN  IF ~after.ok THEN after
                      ELSE LET rest == updated_rows_insert_first(rows, tme, i + 1)
                           IN  IF ~rest.ok THEN rest
                               ELSE Ok(<<Insert(after.v), DeleteRow(before.v)>>
                                       \o rest.v)

RECURSIVE updated_rows(_, _, _)
updated_rows(rows, tme, i) ==
    IF i > Len(rows) THEN Ok(<<>>)
    ELSE IF ~rows[i].ok THEN rows[i]
    ELSE IF ~rows[i].v[1].some THEN Err("Missing before rows in UPDATE_ROWS_EVENT")
    ELSE LET before == binlog_row_to_noria_row(rows[i].v[1].v, tme)
         IN  IF ~before.ok THEN before
             ELSE IF ~rows[i].v[2].some
             THEN Err("Missing after rows in UPDATE_ROWS_EVENT")
             ELSE LET after == binlog_row_to_noria_row(rows[i].v[2].v, tme)
                  IN  IF ~after.ok THEN after
                      ELSE LET rest == updated_rows(rows, tme, i + 1)
                           IN  IF ~rest.ok THEN rest
                               ELSE Ok(<<DeleteRow(before.v), Insert(after.v)>>
                                       \o rest.v)

\* The DELETE rows built from the after images.
RECURSIVE deleted_rows_from_after_image(_, _, _)
deleted_rows_from_after_image(rows, tme, i) ==
    IF i > Len(rows) THEN Ok(<<>>)
    ELSE IF ~rows[i].ok THEN rows[i]
    ELSE IF ~rows[i].v[2].some THEN Err("Missing data in DELETE_ROWS_EVENT")
    ELSE LET row == binlog_row_to_noria_row(rows[i].v[2].v, tme)
         IN  IF ~row.ok THEN row
             ELSE LET rest == deleted_rows_from_after_image(rows, tme, i + 1)
                  IN  IF ~rest.ok THEN rest
                      ELSE Ok(<<DeleteRow(row.v)>> \o rest.v)

RECURSIVE deleted_rows(_, _, _)
deleted_rows(rows, tme, i) ==
    IF i > Len(rows) THEN Ok(<<>>)
    ELSE IF ~rows[i].ok THEN rows[i]
    ELSE IF ~rows[i].v[1].some THEN Err("Missing data in DELETE_ROWS_EVENT")
    ELSE LET row == binlog_row_to_noria_row(rows[i].v[1].v, tme)
         IN  IF ~row.ok THEN row
             ELSE LET rest == deleted_rows(rows, tme, i + 1)
                  IN  IF ~rest.ok THEN rest
                      ELSE Ok(<<DeleteRow(row.v)>> \o rest.v)

\* The end of a rows arm: the TableAction of the collected operations.
rows_action(e, tme, ops) ==
    IF IsPanic(ops) THEN Stay("panic", e, ops.err)
    ELSE IF ~ops.ok THEN Stay("err", e, ops.err)
    ELSE Stay("return", e, TableAction(tme, ops.v, current_gtid))

write_rows_arm(e) ==
    LET tme == get_tme(e.table_id)
    IN  IF ~tme.some THEN Stay("err", e, "TME not found for WRITE_ROWS_EVENT")
        ELSE rows_action(e, tme.v, inserted_rows(e.rows, tme.v, 1))

update_rows_arm(e) ==
    LET tme == get_tme(e.table_id)
    IN  IF ~tme.some THEN Stay("err", e, "TME not found for UPDATE_ROWS_EVENT")
        ELSE rows_action(e, tme.v, updated_rows(e.rows, tme.v, 1))

\* The DELETE arm that passes over an event of a table it has no map for.
delete_rows_arm_skips_unknown_table(e) ==
    LET tme == get_tme(e.table_id)
    IN  IF ~tme.some THEN Stay("check_until", e, "unhandled")
        ELSE rows_action(e, tme.v, deleted_rows(e.rows, tme.v, 1))

delete_rows_arm(e) ==
    LET tme == get_tme(e.table_id)
    IN  IF ~tme.some THEN Stay("err", e, "TME not found for UPDATE_ROWS_EVENT")
        ELSE rows_action(e, tme.v, deleted_rows(e.rows, tme.v, 1))

\* The V1 arm that passes over the event.
rows_v1_arm_ignores(e) == Stay("check_until", e, "unhandled")

rows_v1_arm(e) == Stay("panic", e, "unimplemented")

\* The GTID arm that does not keep the gno.
gtid_arm_drops_gno(e) ==
    Outcome("check_until", Advanced(e), current_gtid, failures, "gtid")

gtid_arm(e) ==
    Outcome("check_until", Advanced(e), Some(e.gno), failures, "gtid")

\* The catch-all arm that forgets the transaction id.
other_arm_clears_gtid(e) ==
    Outcome("check_until", Advanced(e), None, failures, "unhandled")

\* The catch-all arm of the match: at most a log line.
other_arm(e) == Stay("check_until", e, "unhandled")

unknown_type(e) == Stay("err", e, "Unknown binlog event type")

\* ------------------------------------------------------------------------
\* The session: next_action, next_action_inner, next_event
\* ------------------------------------------------------------------------

NoResult == [status |-> "None"]

\* Connector::next_action on what next_action_inner returned: the position
\* is converted to a ReplicationOffset, and a failed conversion is the error.
next_action(action, pos, seq) ==
    LET offset == try_from(pos)
    IN  IF ~offset.ok THEN [status |-> "Err", err |-> offset.err, seq |-> seq]
        ELSE [status |-> "Ok", action |-> action, pos |-> pos,
              offset |-> offset.v, seq |-> seq]

\* The check after the match: the limit is reached.
until_reached(position) ==
    /\ until.some
    /\ ge(position, from(until.v))

\* The event leaves the position where it was or moves it forward.
InOrder(e) ==
    IF e.type = "ROTATE_EVENT"
    THEN /\ u32_try_from(e.position).ok
         /\ ge(BinlogPosition(e.name, Cast(e.position, U32Limbs)), next_position)
    ELSE Cmp(e.log_pos, next_position.position) # "Less"

\* The reader that drops its table maps when the file rotates.
read_flushes_on_rotate(e) ==
    IF e.type = "TABLE_MAP_EVENT"
    THEN [reader EXCEPT ![e.table_id] =
             Some([database_name |-> e.database_name, table_name |-> e.table_name,
                   column_types |-> e.column_types,
                   column_metadata |-> e.column_metadata])]
    ELSE IF e.type = "ROTATE_EVENT" THEN [id \in DOMAIN reader |-> None]
    ELSE reader

\* EventStreamReader::read: a TABLE_MAP_EVENT is kept by its table id.
read(e) ==
    IF e.type = "TABLE_MAP_EVENT"
    THEN [reader EXCEPT ![e.table_id] =
             Some([database_name |-> e.database_name, table_name |-> e.table_name,
                   column_types |-> e.column_types,
                   column_metadata |-> e.column_metadata])]
    ELSE reader

\* The call ends with result r.
Finish(r) ==
    /\ pc' = "idle"
    /\ until' = None
    /\ ret' = r
    /\ prev_ok' = IF ret.status = "Ok"
                  THEN Some([pos |-> ret.pos, offset |-> ret.offset, seq |-> ret.seq])
                  ELSE prev_ok

\* One turn of the loop of next_action_inner: n packets were taken from the
\* stream, e is the one dispatched and o what its arm decided.
Dispatch(e, o, n) ==
    /\ pc = "loop"
    /\ nread < MaxEvents
    /\ e.status = 0
    /\ validate_event_checksum(e)
    /\ nread' = nread + n
    /\ in_call' = in_call + n
    /\ ev' = e
    /\ seen_gno' = IF e.type = "GTID_EVENT" THEN Some(e.gno) ELSE seen_gno
    /\ in_order' = (in_order /\ InOrder(e))
    /\ reader' = read(e)
    /\ next_position' = o.next_position
    /\ current_gtid' = o.current_gtid
    /\ failures' = o.failures
    /\ CASE o.flow = "return" ->
                Finish(next_action(o.payload, o.next_position, nread + n))
         [] o.flow = "check_until" ->
                IF until_reached(o.next_position)
                THEN Finish(next_action(LogPosition, o.next_position, nread + n))
                ELSE UNCHANGED <<pc, until, ret, prev_ok>>
         [] o.flow = "continue" -> UNCHANGED <<pc, until, ret, prev_ok>>
         [] o.flow = "err" ->
                Finish([status |-> "Err", err |-> o.payload, seq |-> nread + n])
         [] o.flow = "panic" ->
                /\ pc' = "panicked"
                /\ UNCHANGED <<until, ret, prev_ok>>
    /\ UNCHANGED <<server_id, wire, current_offset>>
    /\ UNCHANGED <<codecVars, coerceVars, fleetVars, writerVars>>

\* The turn that takes a packet from the stream and drops it before the one
\* it dispatches.
Turn_drops_a_packet(e, o) == Dispatch(e, o, 2)

\* The turn of the loop: next_event returned event e (one packet) and the
\* arm for it decided o.
Turn(e, o) == Dispatch(e, o, 1)

\* The offset of the position connect was given.
StartOffset == try_from(BinlogPosition(<<"a", ".", "0", "1">>, ToLimbs(4, U32Limbs))).v

\* The call that looks at the limit before it reads an event.
Call_checks_limit_first(u) ==
    /\ pc = "idle"
    /\ nread < MaxEvents
    /\ in_call' = 0
    /\ IF u.some /\ ge(next_position, from(u.v))
       THEN Finish(next_action(LogPosition, next_position, nread))
       ELSE /\ pc' = "loop"
            /\ until' = u
            /\ UNCHANGED <<ret, prev_ok>>
    /\ current_offset' = Some(StartOffset)
    /\ UNCHANGED <<reader, next_position, current_gtid, failures, nread, ev,
                   seen_gno, in_order>>
    /\ UNCHANGED <<server_id, wire>>
    /\ UNCHANGED <<codecVars, coerceVars, fleetVars, writerVars>>

\* The call that takes the position to resume from out of its argument.
CallWith_resumes_at_argument(current, u) ==
    /\ pc = "idle"
    /\ nread < MaxEvents
    /\ pc' = "loop"
    /\ until' = u
    /\ in_call' = 0
    /\ current_offset' = Some(current)
    /\ next_position' = from(current)
    /\ UNCHANGED <<reader, current_gtid, failures, ret, prev_ok,
                   nread, ev, seen_gno, in_order>>
    /\ UNCHANGED <<server_id, wire>>
    /\ UNCHANGED <<codecVars, coerceVars, fleetVars, writerVars>>

\* Connector::next_action is called with the offset current, which it binds
\* to `_`, and the limit u.
CallWith(current, u) ==
    /\ pc = "idle"
    /\ nread < MaxEvents
    /\ pc' = "loop"
    /\ until' = u
    /\ in_call' = 0
    /\ current_offset' = Some(current)
    /\ UNCHANGED <<reader, next_position, current_gtid, failures, ret, prev_ok,
                   nread, ev, seen_gno, in_order>>
    /\ UNCHANGED <<server_id, wire>>
    /\ UNCHANGED <<codecVars, coerceVars, fleetVars, writerVars>>

\* A caller starts next_action with the limit u.
Call(u) == CallWith(StartOffset, u)

\* The packet that fails an assertion of next_event after the reader took it.
Rejected_after_read(e) ==
    /\ pc = "loop"
    /\ nread < MaxEvents
    /\ e.status # 0 \/ ~validate_event_checksum(e)
    /\ pc' = "panicked"
    /\ nread' = nread + 1
    /\ in_call' = in_call + 1
    /\ ev' = e
    /\ reader' = read(e)
    /\ UNCHANGED <<next_position, current_gtid, failures, until, ret, prev_ok,
                   seen_gno, in_order>>
    /\ UNCHANGED <<server_id, wire, current_offset>>
    /\ UNCHANGED <<codecVars, coerceVars, fleetVars, writerVars>>

\* The packet read fails one of the assertions of next_event.
Rejected(e) ==
    /\ pc = "loop"
    /\ nread < MaxEvents
    /\ e.status # 0 \/ ~validate_event_checksum(e)
    /\ pc' = "panicked"
    /\ nread' = nread + 1
    /\ in_call' = in_call + 1
    /\ ev' = e
    /\ reader' = IF e.status = 0 THEN read(e) ELSE reader
    /\ UNCHANGED <<next_position, current_gtid, failures, until, ret, prev_ok,
                   seen_gno, in_order>>
    /\ UNCHANGED <<server_id, wire, current_offset>>
    /\ UNCHANGED <<codecVars, coerceVars, fleetVars, writerVars>>

Rotate(e) == e.type = "ROTATE_EVENT" /\ Turn(e, rotate_arm(e))

Query(e) == e.type = "QUERY_EVENT" /\ Turn(e, query_arm(e))

TableMap(e) == e.type = "TABLE_MAP_EVENT" /\ Turn(e, table_map_arm(e))

WriteRows(e) == e.type = "WRITE_ROWS_EVENT" /\ Turn(e, write_rows_arm(e))

UpdateRows(e) == e.type = "UPDATE_ROWS_EVENT" /\ Turn(e, update_rows_arm(e))

DeleteRows(e) == e.type = "DELETE_ROWS_EVENT" /\ Turn(e, delete_rows_arm(e))

RowsV1(e) == e.type \in RowsV1Types /\ Turn(e, rows_v1_arm(e))

Gtid(e) == e.type = "GTID_EVENT" /\ Turn(e, gtid_arm(e))

Other(e) == e.type \in OtherTypes /\ Turn(e, other_arm(e))

UnknownType(e) == ~event_type(e).ok /\ Turn(e, unknown_type(e))

\* ------------------------------------------------------------------------
\* Inputs of the session
\* ------------------------------------------------------------------------

FileA1 == <<"a", ".", "0", "1">>

FileA2 == <<"a", ".", "0", "2">>

FileNoDot == <<"a">>

\* The position connect is given.
StartPosition == BinlogPosition(FileA1, U32(4))

LogPositions == {U32(50), U32(100)}

\* The limits a caller passes.
Untils == {None, Some(try_from(BinlogPosition(FileA1, U32(100))).v)}

TableIds == {33, 34}

Value(v) == [kind |-> "Value", val |-> v]

Img1 == <<Value(SignedInt(1)), Value(SignedInt(2))>>

Img2 == <<Value(SignedInt(3)), Value(SignedInt(4))>>

\* A row image with a cell that is neither a value nor JSONB.
ImgBad == <<Value(SignedInt(1)), [kind |-> "JsonbDiff"]>>

\* A row image with a JSONB cell that converts to its text.
ImgJson == <<Value(SignedInt(1)), [kind |-> "Jsonb", json |-> Ok(<<"{", "}">>)]>>

\* The table map event of table id 33: db.t with two columns.
TableMap33(log_pos) ==
    TableMapEvent(log_pos, 33, "db", "t", <<"LONG", "LONG">>, <<<<>>, <<>>>>)

\* Rows as the event decodes them: (before image, after image).
Row(before, after) == Ok(<<before, after>>)

RowKinds ==
    { Row(Some(Img1), Some(Img2)), Row(Some(Img2), Some(Img1)),
      Row(None, Some(Img1)), Row(Some(Img1), None) }

RowLists == UNION {[1..n -> RowKinds] : n \in 0..MaxRows}

RowsTypes == {"WRITE_ROWS_EVENT", "UPDATE_ROWS_EVENT", "DELETE_ROWS_EVENT"}

\* The events of the dispatcher: every arm, with one short list of rows.
Events ==
    {RotateEvent(U32(50), t[1], t[2]) :
        t \in {<<FileA1, U64(100)>>, <<FileA2, U64(4)>>, <<FileNoDot, U64(4)>>}}
    \cup {RotateEvent(U32(50), FileA2, <<0, 0, 1, 0>>)}
    \cup {QueryEvent(lp, None, "BEGIN") : lp \in LogPositions}
    \cup {QueryEvent(U32(100), Some(<<"db", "db2">>), "DROP TABLE t")}
    \cup {QueryEvent(U32(50), Some(<<"db">>), "CREATE TABEL")}
    \cup {TableMap33(lp) : lp \in LogPositions}
    \cup {RowsEvent(ty, U32(100), 33, <<Row(Some(Img1), Some(Img2))>>) :
        ty \in RowsTypes}
    \cup {RowsEvent("WRITE_ROWS_EVENT", U32(100), 34, <<Row(Some(Img1), Some(Img2))>>)}
    \cup {GtidEvent(U32(50), 7), GtidEvent(U32(100), 8)}
    \cup {Packet("XID_EVENT", lp) : lp \in LogPositions}
    \cup {Packet(ty, U32(100)) : ty \in RowsV1Types}
    \cup {Packet("Unknown(99)", U32(100))}

\* Packets next_event rejects: a status byte that is not 0, a CRC32 footer
\* with another checksum or with none.
BadPackets ==
    { [Packet("XID_EVENT", U32(100)) EXCEPT !.status = 254],
      [Packet("XID_EVENT", U32(100)) EXCEPT !.checksum = Some(0)],
      [Packet("XID_EVENT", U32(100)) EXCEPT !.checksum = None] }

\* The events of the rows arms: the table map and rows events with every
\* list of rows, a row that fails to decode, a cell that is no value.
RowsEvents ==
    {TableMap33(U32(50))}
    \cup {RowsEvent(ty, U32(100), 33, rows) : ty \in RowsTypes, rows \in RowLists}
    \cup {RowsEvent(ty, U32(100), 33, <<Err("row")>>) : ty \in RowsTypes}
    \cup {RowsEvent(ty, U32(100), 33, <<Row(Some(ImgBad), Some(ImgBad))>>) :
            ty \in RowsTypes}
    \cup {RowsEvent(ty, U32(100), 33, <<Row(Some(ImgJson), Some(Img1))>>) :
            ty \in RowsTypes}
    \cup {RowsEvent(ty, U32(100), 34, <<Row(Some(Img1), Some(Img2))>>) :
            ty \in RowsTypes}

\* The events of the QUERY arm: every list of names with every kind of text,
\* and a rotation to a file name that has no suffix.
QueryEvents ==
    {QueryEvent(lp, names, query) :
        lp \in LogPositions,
        names \in {None, Some(<<>>), Some(<<"db">>), Some(<<"db2", "db">>)},
        query \in {"BEGIN", "DROP TABLE t", "CREATE TABEL"}}
    \cup {RotateEvent(U32(50), FileNoDot, U64(4))}

\* The events of the reader: one event type under every footer.
FooterEvents ==
    {[Packet(ty, lp) EXCEPT !.alg = f[1], !.checksum = f[2]] :
        ty \in {"XID_EVENT"}, lp \in LogPositions,
        f \in {<<"CRC32", Some(1)>>, <<"CRC32", Some(0)>>, <<"CRC32", None>>,
               <<"OFF", None>>, <<"OFF", Some(0)>>, <<"None", None>>,
               <<"Unknown", Some(0)>>}}
    \cup {[Packet("XID_EVENT", U32(100)) EXCEPT !.status = 254]}
    \cup {[TableMap33(U32(50)) EXCEPT !.status = st] : st \in {254, 255}}
    \cup {GtidEvent(U32(100), 7)}

\* ------------------------------------------------------------------------
\* connect
\* ------------------------------------------------------------------------

CHECKSUM_QUERY == "SET @master_binlog_checksum='CRC32'"

\* u32::MAX - 55.
DEFAULT_SERVER_ID == <<Limb - 1 - 55, Limb - 1>>

\* The server id of always the default.
server_id_default_only == DEFAULT_SERVER_ID

\* MySqlBinlogConnector::server_id().
server_id_or_default ==
    IF server_id.some THEN server_id.v ELSE DEFAULT_SERVER_ID

\* What connect does on the connection, each with its outcome.
OpenOp(ok) == [op |-> "Conn::new", ok |-> ok]

QueryOp(ok) == [op |-> "query_drop", query |-> CHECKSUM_QUERY, ok |-> ok]

RegisterOp(id, ok) ==
    [op |-> "write_command", cmd |-> "ComRegisterSlave", server_id |-> id, ok |-> ok]

DumpOp(id, position, ok) ==
    [op |-> "write_command", cmd |-> "ComBinlogDump", server_id |-> id,
     pos |-> position.position, filename |-> position.binlog_file, ok |-> ok]

ReadOp(ok) == [op |-> "read_packet", ok |-> ok]

\* One awaited operation of connect: done, and connect goes on when it
\* succeeded and returns the error when it failed.
ConnectStep(at, op, then) ==
    /\ pc = at
    /\ wire' = Append(wire, op)
    /\ pc' = IF op.ok THEN then ELSE "connect_failed"
    /\ UNCHANGED <<server_id, reader, next_position, current_gtid, failures, until,
                   ret, prev_ok, nread, in_call, ev, seen_gno, in_order,
                   current_offset>>
    /\ UNCHANGED <<codecVars, coerceVars, fleetVars, writerVars>>

\* mysql::Conn::new(mysql_opts).await?
OpenConnection(ok) == ConnectStep("new", OpenOp(ok), "opened")

\* register_as_replica: query_drop(CHECKSUM_QUERY).await?
SetChecksum(ok) == ConnectStep("opened", QueryOp(ok), "checksum_set")

\* register_as_replica: write_command(ComRegisterSlave).await?
SendRegister(ok) ==
    ConnectStep("checksum_set", RegisterOp(server_id_or_default, ok), "register_sent")

\* register_as_replica: read_packet().await?
ReadRegisterReply(ok) == ConnectStep("register_sent", ReadOp(ok), "registered")

\* request_binlog: write_command(ComBinlogDump).await?
SendBinlogDump(ok) ==
    ConnectStep("registered", DumpOp(server_id_or_default, next_position, ok),
                "dump_sent")

\* request_binlog: read_packet().await?, then Ok(connector).
ReadDumpReply(ok) == ConnectStep("dump_sent", ReadOp(ok), "idle")

\* The operations of a connect that succeeded.
Handshake(id, position) ==
    << OpenOp(TRUE), QueryOp(TRUE), RegisterOp(id, TRUE), ReadOp(TRUE),
       DumpOp(id, position, TRUE), ReadOp(TRUE) >>

\* ------------------------------------------------------------------------
\* Specifications
\* ------------------------------------------------------------------------

\* The session as connect leaves it.
InitSession ==
    /\ server_id = None
    /\ wire = Handshake(DEFAULT_SERVER_ID, StartPosition)
    /\ reader = [id \in TableIds |-> None]
    /\ next_position = StartPosition
    /\ current_gtid = None
    /\ failures = 0
    /\ pc = "idle"
    /\ until = None
    /\ ret = NoResult
    /\ prev_ok = None
    /\ nread = 0
    /\ in_call = 0
    /\ ev = [status |-> 0, type |-> "none"]
    /\ seen_gno = None
    /\ in_order = TRUE
    /\ current_offset = None
    /\ running = 1
    /\ parked = <<>>

CodecIdle ==
    /\ a = StartPosition
    /\ b = StartPosition
    /\ ord = None
    /\ enc = None
    /\ dec = None
    /\ cpc = "off"

\* No coercion asked for.
CoerceIdle ==
    /\ overflow_checks = TRUE
    /\ arg = [fn |-> "none"]
    /\ out = None

\* No response being written.
WriterIdle ==
    /\ wpc = "off"
    /\ is_bin = FALSE
    /\ last_end = None
    /\ columns = <<>>
    /\ col = 0
    /\ finished = FALSE
    /\ last_status_flags = None
    /\ row_data = None
    /\ packets = <<>>
    /\ queue_len = 0
    /\ wret = NoResult
    /\ nsets = 0
    /\ calls = 0
    /\ ends = 0
    /\ given = 0
    /\ last_given = 0

Init == InitSession /\ CodecIdle /\ CoerceIdle /\ WriterIdle

Next ==
    \/ \E u \in Untils : Call(u)
    \/ \E e \in Events :
        \/ Rotate(e)
        \/ Query(e)
        \/ TableMap(e)
        \/ WriteRows(e)
        \/ UpdateRows(e)
        \/ DeleteRows(e)
        \/ RowsV1(e)
        \/ Gtid(e)
        \/ Other(e)
        \/ UnknownType(e)
    \/ \E e \in BadPackets : Rejected(e)

Spec == Init /\ [][Next]_vars

\* The rows arms on every list of rows.
NextRows ==
    \/ Call(None)
    \/ \E e \in RowsEvents :
        \/ TableMap(e)
        \/ WriteRows(e)
        \/ UpdateRows(e)
        \/ DeleteRows(e)

SpecRows == Init /\ [][NextRows]_vars

\* The QUERY arm on every list of names.
NextQuery ==
    \/ Call(None)
    \/ \E e \in QueryEvents :
        \/ Query(e)
        \/ Rotate(e)

SpecQuery == Init /\ [][NextQuery]_vars

\* next_event on every footer.
NextReader ==
    \/ Call(None)
    \/ \E e \in FooterEvents :
        \/ Rejected(e)
        \/ Other(e)
        \/ Gtid(e)

SpecReader == Init /\ [][NextReader]_vars

\* The codec applied to a pair of positions.
InitCodec ==
    /\ InitSession
    /\ a \in Positions
    /\ b \in Positions
    /\ ord = None
    /\ enc = None
    /\ dec = None
    /\ cpc = "args"
    /\ CoerceIdle
    /\ WriterIdle

Compare ==
    /\ cpc = "args"
    /\ ord' = Some(partial_cmp(a, b))
    /\ cpc' = "compared"
    /\ UNCHANGED <<a, b, enc, dec>>
    /\ UNCHANGED <<sessionVars, coerceVars, fleetVars, writerVars>>

Encode ==
    /\ cpc = "compared"
    /\ enc' = Some(try_from(a))
    /\ cpc' = "encoded"
    /\ UNCHANGED <<a, b, ord, dec>>
    /\ UNCHANGED <<sessionVars, coerceVars, fleetVars, writerVars>>

Decode ==
    /\ cpc = "encoded"
    /\ enc.v.ok
    /\ dec' = Some(from(enc.v.v))
    /\ cpc' = "decoded"
    /\ UNCHANGED <<a, b, ord, enc>>
    /\ UNCHANGED <<sessionVars, coerceVars, fleetVars, writerVars>>

NextCodec == Compare \/ Encode \/ Decode

SpecCodec == InitCodec /\ [][NextCodec]_vars

\* Offsets as a caller of from can hold them: any width field, suffix fields
\* on both sides of 2^32, byte offsets on both sides of 2^32.
RawWidths == {0, 1, 6, MaxSuffixWidth, 2 ^ 5 - 1}

RawSuffixes ==
    { ToLimbs(0, U128Limbs), ToLimbs(1, U128Limbs), ToLimbs(123, U128Limbs),
      Cast(U32Max, U128Limbs), Cast(<<0, 0, 1>>, U128Limbs) }

RawByteOffsets ==
    { ToLimbs(0, U64Limbs), ToLimbs(4, U64Limbs), Cast(U32Max, U64Limbs),
      <<4, 0, 1, 0>> }

RawOffsets ==
    { [offset |-> pack(w, sx, p), replication_log_name |-> bn] :
        w \in RawWidths, sx \in RawSuffixes, p \in RawByteOffsets,
        bn \in Basenames }

\* from applied to an offset that did not come out of try_from.
InitDecode ==
    /\ InitSession
    /\ a = StartPosition
    /\ b = StartPosition
    /\ ord = None
    /\ enc \in {Some(Ok(o)) : o \in RawOffsets}
    /\ dec = None
    /\ cpc = "encoded"
    /\ CoerceIdle
    /\ WriterIdle

NextDecode == Decode

SpecDecode == InitDecode /\ [][NextDecode]_vars

\* The cells of binlog_row_to_noria_row: values of each kind, JSONB that
\* decodes, that is opaque, that fails to decode, and a partial JSON update.
CellKinds ==
    { Value(SignedInt(1)), Value(Bytes(<<"a">>)), Value(Bytes(<<"0">>)),
      Value(NotANumber),
      [kind |-> "Jsonb", json |-> Ok(<<"{", "}">>)],
      [kind |-> "Jsonb", json |-> Err("Opaque"), data |-> <<"[", "]">>],
      [kind |-> "Jsonb", json |-> Err("InvalidUtf8")],
      [kind |-> "Jsonb", json |-> Err("InvalidJsonb")],
      [kind |-> "JsonbDiff"] }

BinlogRows == UNION {[1..n -> CellKinds] : n \in 0..MaxCells}

Tme(types, metadata) ==
    [database_name |-> "db", table_name |-> "t", column_types |-> types,
     column_metadata |-> metadata]

\* The table maps: the columns of a row, a timestamp column on either side,
\* a column type the library does not know, one column too few.
TableMaps ==
    { Tme([i \in 1..MaxCells |-> "LONG"], [i \in 1..MaxCells |-> <<>>]),
      Tme([i \in 1..MaxCells |-> IF i = 1 THEN "TIMESTAMP2" ELSE "LONG"],
          [i \in 1..MaxCells |-> IF i = 1 THEN <<0>> ELSE <<>>]),
      Tme([i \in 1..MaxCells |-> IF i = 1 THEN "LONG" ELSE "TIMESTAMP2"],
          [i \in 1..MaxCells |-> IF i = 1 THEN <<>> ELSE <<0>>]),
      Tme([i \in 1..MaxCells |-> IF i = 1 THEN "LONG" ELSE "Unknown"],
          [i \in 1..MaxCells |-> <<>>]),
      Tme(<<"LONG">>, <<<<>>>>) }

InitRow ==
    /\ InitSession
    /\ CodecIdle
    /\ WriterIdle
    /\ overflow_checks \in BOOLEAN
    /\ arg \in {[fn |-> "row", binlog_row |-> r, tme |-> t] :
                    r \in BinlogRows, t \in TableMaps}
    /\ out = None

\* binlog_row_to_noria_row applied to the input.
Translate ==
    /\ arg.fn = "row"
    /\ out = None
    /\ out' = Some(binlog_row_to_noria_row(arg.binlog_row, arg.tme))
    /\ UNCHANGED <<overflow_checks, arg>>
    /\ UNCHANGED <<sessionVars, codecVars, fleetVars, writerVars>>

NextRow == Translate

SpecRow == InitRow /\ [][NextRow]_vars

\* The seconds of a timestamp payload: 0 in several spellings, a date of
\* 2023, the largest count of 32 bits, a count before the epoch, text that is
\* no number, and counts at the ends of i64.
SecsTexts ==
    { Dec(<<0>>), Dec(<<0, 0>>), <<"+", "0">>, <<"-", "0">>, <<"-", "1">>,
      Dec(<<1, 7, 0, 0, 0, 0, 0, 0, 0, 0>>), Dec(<<4, 2, 9, 4, 9, 6, 7, 2, 9, 5>>),
      <<>>, <<"x">>,
      Dec(<<9, 2, 2, 3, 3, 7, 2, 0, 3, 6, 8, 5, 4, 7, 7, 5, 8, 0, 7>>),
      Dec(<<9, 2, 2, 3, 3, 7, 2, 0, 3, 6, 8, 5, 4, 7, 7, 5, 8, 0, 8>>),
      <<"-">> \o Dec(<<9, 2, 2, 3, 3, 7, 2, 0, 3, 6, 8, 5, 4, 7, 7, 5, 8, 0, 8>>) }

FracDigits == {0, 1, 9}

\* The fractions: every text of up to MaxFracLen of the digits, and texts
\* that are empty, signed, no number, or too large for the product.
FracTexts ==
    UNION {{Dec(ds) : ds \in [1..n -> FracDigits]} : n \in 1..MaxFracLen}
    \cup { <<>>, <<"+", "5">>, <<"x">>, Dec(<<9, 9, 9, 9, 9, 9, 9, 9>>),
           Dec(<<1, 3, 4, 2, 1, 7, 7, 2, 8>>) }

Payloads ==
    SecsTexts
    \cup {secs \o <<".">> \o frac :
            secs \in {Dec(<<0>>), Dec(<<1, 7, 0, 0, 0, 0, 0, 0, 0, 0>>)},
            frac \in FracTexts}

\* The column metadata: precision 0, precision 6, and other shapes.
Metas == {<<0>>, <<6>>, <<>>, <<0, 0>>}

InitTime ==
    /\ InitSession
    /\ CodecIdle
    /\ WriterIdle
    /\ overflow_checks \in BOOLEAN
    /\ arg \in {[fn |-> "val", val |-> Bytes(buf), col_kind |-> "TIMESTAMP2",
                 meta |-> meta] : buf \in Payloads, meta \in Metas}
    /\ out = None

\* binlog_val_to_noria_val applied to the input.
Coerce ==
    /\ arg.fn = "val"
    /\ out = None
    /\ out' = Some(binlog_val_to_noria_val(arg.val, arg.col_kind, arg.meta))
    /\ UNCHANGED <<overflow_checks, arg>>
    /\ UNCHANGED <<sessionVars, codecVars, fleetVars, writerVars>>

NextTime == Coerce

SpecTime == InitTime /\ [][NextTime]_vars

\* Several connectors: each one is its own MySqlBinlogConnector value with
\* its own connection, and the methods take &mut self.
SessionIds == 1..MaxSessions

\* The fields and the call state of the connector that is running.
Connector ==
    [server_id |-> server_id, wire |-> wire, reader |-> reader,
     next_position |-> next_position, current_gtid |-> current_gtid, pc |-> pc,
     until |-> until, ret |-> ret, prev_ok |-> prev_ok, in_call |-> in_call,
     ev |-> ev, seen_gno |-> seen_gno, in_order |-> in_order]

\* The table maps connector s sees when all connectors share one reader.
reader_shared(s) == reader

\* The table maps of connector s: the reader is a field of the connector.
reader_of(s) == IF s = running THEN reader ELSE parked[s].reader

next_position_of(s) ==
    IF s = running THEN next_position ELSE parked[s].next_position

current_gtid_of(s) ==
    IF s = running THEN current_gtid ELSE parked[s].current_gtid

pc_of(s) == IF s = running THEN pc ELSE parked[s].pc

\* The scheduler goes on with connector s: the variables of the connector
\* now hold its fields, and the fields of the one that ran are put aside.
Resume(s) ==
    /\ s # running
    /\ running' = s
    /\ parked' = [t \in SessionIds \ {s} |->
                    IF t = running THEN Connector ELSE parked[t]]
    /\ server_id' = parked[s].server_id
    /\ wire' = parked[s].wire
    /\ reader' = parked[s].reader
    /\ next_position' = parked[s].next_position
    /\ current_gtid' = parked[s].current_gtid
    /\ pc' = parked[s].pc
    /\ until' = parked[s].until
    /\ ret' = parked[s].ret
    /\ prev_ok' = parked[s].prev_ok
    /\ in_call' = parked[s].in_call
    /\ ev' = parked[s].ev
    /\ seen_gno' = parked[s].seen_gno
    /\ in_order' = parked[s].in_order
    /\ UNCHANGED <<nread, failures, current_offset>>
    /\ UNCHANGED <<codecVars, coerceVars, writerVars>>

\* The events the connectors read, each from its own connection.
SessionEvents ==
    { TableMap33(U32(50)), RotateEvent(U32(50), FileA2, U64(4)),
      GtidEvent(U32(100), 7) }

InitSessions ==
    /\ server_id = None
    /\ wire = Handshake(DEFAULT_SERVER_ID, StartPosition)
    /\ reader = [id \in TableIds |-> None]
    /\ next_position = StartPosition
    /\ current_gtid = None
    /\ failures = 0
    /\ pc = "idle"
    /\ until = None
    /\ ret = NoResult
    /\ prev_ok = None
    /\ nread = 0
    /\ in_call = 0
    /\ ev = [status |-> 0, type |-> "none"]
    /\ seen_gno = None
    /\ in_order = TRUE
    /\ current_offset = None
    /\ running = 1
    /\ parked = [s \in SessionIds \ {1} |-> Connector]
    /\ CodecIdle
    /\ CoerceIdle
    /\ WriterIdle

NextSessions ==
    \/ \E s \in SessionIds : Resume(s)
    \/ Call(None)
    \/ \E e \in SessionEvents :
        \/ Rotate(e)
        \/ TableMap(e)
        \/ Gtid(e)

SpecSessions == InitSessions /\ [][NextSessions]_vars

\* ------------------------------------------------------------------------
\* mysql-srv: QueryResultWriter and RowWriter
\* ------------------------------------------------------------------------

MAX_POOL_ROWS == 4096

SERVER_MORE_RESULTS_EXISTS == "SERVER_MORE_RESULTS_EXISTS"

\* StatusFlags::empty().
NoFlags == {}

\* enum Finalizer.
FinalizerOk(affected, last_insert_id, status_flags) ==
    [kind |-> "Ok", rows |-> affected, last_insert_id |-> last_insert_id,
     status_flags |-> status_flags]

FinalizerEof(status_flags) == [kind |-> "Eof", status_flags |-> status_flags]

\* The packets of the writers module.
OkPacket(affected, last_insert_id, status) ==
    [type |-> "OK", rows |-> affected, last_insert_id |-> last_insert_id,
     status |-> status]

EofPacket(status) == [type |-> "EOF", status |-> status]

ErrPacket(kind) == [type |-> "ERR", kind |-> kind]

ColumnDefinitions(cols, cached) ==
    [type |-> "COLDEFS", columns |-> cols, cached |-> cached]

RowPacket(data) == [type |-> "ROW", data |-> data]

\* io::Result<()> of a method.
Done == [status |-> "Ok"]

InvalidData(msg) == [status |-> "Err", kind |-> "InvalidData", msg |-> msg]

IoError == [status |-> "Err", kind |-> "Other", msg |-> "write failed"]

\* The packets ps written in order; the write number fail (if there is one)
\* returns an I/O error, and nothing after it is written.
WriteAll(ps, fail) ==
    IF fail \in 1..Len(ps)
    THEN [written |-> SubSeq(ps, 1, fail - 1), ok |-> FALSE]
    ELSE [written |-> ps, ok |-> TRUE]

\* The packet of the terminator last with the flags status.
Terminator(last, status) ==
    IF last.kind = "Ok"
    THEN OkPacket(last.rows, last.last_insert_id, status)
    ELSE EofPacket(status)

\* The flags the caller gave for the terminator last.
FlagsOf(last) == IF last.status_flags.some THEN last.status_flags.v ELSE NoFlags

\* finalize that leaves the terminator pending and writes it again.
finalize_writes_twice(more_exists) ==
    IF ~last_end.some THEN <<>>
    ELSE <<Terminator(last_end.v, FlagsOf(last_end.v) \cup {SERVER_MORE_RESULTS_EXISTS}),
           Terminator(last_end.v, FlagsOf(last_end.v))>>

\* finalize that never marks the terminator.
finalize_without_more(more_exists) ==
    IF ~last_end.some THEN <<>>
    ELSE <<Terminator(last_end.v, FlagsOf(last_end.v))>>

\* QueryResultWriter::finalize: the packet it writes for the pending
\* terminator (last_end is None after it).
finalize(more_exists) ==
    IF ~last_end.some THEN <<>>
    ELSE <<Terminator(last_end.v,
                      IF more_exists
                      THEN FlagsOf(last_end.v) \cup {SERVER_MORE_RESULTS_EXISTS}
                      ELSE FlagsOf(last_end.v))>>

\* The error written before the pending terminator.
error_before_terminator(kind) == <<ErrPacket(kind)>> \o finalize(FALSE)

\* QueryResultWriter::error: finalize(true), write_err, then no_more_results,
\* whose finalize(false) finds last_end taken.
error(kind) == finalize(TRUE) \o <<ErrPacket(kind)>>

\* finish_inner that reports no affected rows.
finish_inner_without_rows ==
    IF columns = <<>> THEN FinalizerOk(0, 0, last_status_flags)
    ELSE FinalizerEof(last_status_flags)

\* RowWriter::finish_inner: the Finalizer it records in result.last_end.
finish_inner ==
    IF columns = <<>> THEN FinalizerOk(col, 0, last_status_flags)
    ELSE FinalizerEof(last_status_flags)

\* What a row holds: the header and null bitmap of the binary protocol,
\* values, and bits set in the bitmap.
Header == [item |-> "header"]

Encoded(v) == [item |-> "value", v |-> v]

NullBit(at) == [item |-> "null", at |-> at]

\* RowWriter::write_col on the row rd at column c: the result, the row and
\* the column after it.
write_col(rd, c, v) ==
    IF columns = <<>> THEN [res |-> Done, row_data |-> rd, col |-> c]
    ELSE LET row0 == IF rd.some THEN rd.v ELSE <<>>
         IN  IF is_bin
             THEN LET row1 == IF c = 0 THEN row0 \o <<Header>> ELSE row0
                  IN  IF c >= Len(columns)
                      THEN [res |-> InvalidData("row has more columns than specification"),
                            row_data |-> Some(row1), col |-> c]
                      ELSE IF v.null
                      THEN IF columns[c + 1].not_null
                           THEN [res |-> InvalidData("given NULL value for NOT NULL column"),
                                 row_data |-> Some(row1), col |-> c]
                           ELSE [res |-> Done,
                                 row_data |-> Some(row1 \o <<NullBit(c)>>),
                                 col |-> c + 1]
                      ELSE [res |-> Done, row_data |-> Some(row1 \o <<Encoded(v)>>),
                            col |-> c + 1]
             ELSE [res |-> Done, row_data |-> Some(row0 \o <<Encoded(v)>>),
                   col |-> c + 1]

\* The loop of write_row: write_col on each value, left at the first error.
RECURSIVE write_cols(_, _, _, _)
write_cols(row, i, rd, c) ==
    IF i > Len(row) THEN [res |-> Done, row_data |-> rd, col |-> c]
    ELSE LET one == write_col(rd, c, row[i])
         IN  IF one.res.status = "Err" THEN one
             ELSE write_cols(row, i + 1, one.row_data, one.col)

\* RowWriter::end_row on the row rd at column c, before the flush.
end_row(rd, c) ==
    IF columns = <<>>
    THEN [res |-> Done, row_data |-> rd, col |-> c + 1, enqueued |-> <<>>]
    ELSE IF c # Len(columns)
    THEN [res |-> InvalidData("row has fewer columns than specification"),
          row_data |-> rd, col |-> c, enqueued |-> <<>>]
    ELSE [res |-> Done, row_data |-> None, col |-> 0,
          enqueued |-> IF rd.some THEN <<RowPacket(rd.v)>> ELSE <<>>]

nonWriterVars == <<sessionVars, codecVars, coerceVars, fleetVars>>

\* The caller lost the writer: the method returned Err(r) and had taken self.
Lost(r) ==
    /\ wpc' = "failed"
    /\ wret' = r
    /\ UNCHANGED <<columns, col, finished, last_status_flags, row_data, queue_len,
                   nsets, ends, given, last_given>>

\* QueryResultWriter::start and start_with_cache, with RowWriter::new and
\* RowWriter::start.
Start(cols, cached, fail) ==
    /\ wpc = "result"
    /\ calls < MaxCalls
    /\ LET w == WriteAll(finalize(TRUE)
                         \o (IF cols = <<>> THEN <<>>
                             ELSE <<ColumnDefinitions(cols, cached)>>), fail)
       IN  /\ packets' = packets \o w.written
           /\ last_end' = None
           /\ IF w.ok
              THEN /\ wpc' = "rows"
                   /\ wret' = Done
                   /\ columns' = cols
                   /\ col' = 0
                   /\ finished' = FALSE
                   /\ last_status_flags' = None
                   /\ row_data' = None
                   /\ nsets' = nsets + 1
                   /\ ends' = 0
                   /\ given' = 0
                   /\ last_given' = 0
                   /\ UNCHANGED queue_len
              ELSE Lost(IoError)
    /\ calls' = calls + 1
    /\ UNCHANGED is_bin
    /\ UNCHANGED nonWriterVars

\* QueryResultWriter::complete_one.
CompleteOne(affected, status_flags, fail) ==
    /\ wpc = "result"
    /\ calls < MaxCalls
    /\ LET w == WriteAll(finalize(TRUE), fail)
       IN  /\ packets' = packets \o w.written
           /\ IF w.ok
              THEN /\ last_end' = Some(FinalizerOk(affected, 0, status_flags))
                   /\ wret' = Done
                   /\ nsets' = nsets + 1
                   /\ UNCHANGED <<wpc, columns, col, finished, last_status_flags,
                                  row_data, queue_len, ends, given, last_given>>
              ELSE /\ last_end' = None
                   /\ Lost(IoError)
    /\ calls' = calls + 1
    /\ UNCHANGED is_bin
    /\ UNCHANGED nonWriterVars

\* The writer is given up after the packets ps, the last method of a response.
Closing(ps, fail) ==
    LET w == WriteAll(ps, fail)
    IN  /\ packets' = packets \o w.written
        /\ last_end' = None
        /\ wpc' = IF w.ok THEN "done" ELSE "failed"
        /\ wret' = IF w.ok THEN Done ELSE IoError
        /\ UNCHANGED <<is_bin, columns, col, finished, last_status_flags, row_data,
                       queue_len, nsets, calls, ends, given, last_given>>
        /\ UNCHANGED nonWriterVars

\* QueryResultWriter::completed: complete_one, then no_more_results.
Completed(affected, status_flags, fail) ==
    /\ wpc = "result"
    /\ calls < MaxCalls
    /\ Closing(finalize(TRUE)
               \o <<OkPacket(affected, 0,
                             IF status_flags.some THEN status_flags.v ELSE NoFlags)>>,
               fail)

\* QueryResultWriter::error.
QueryError(kind, fail) ==
    /\ wpc = "result"
    /\ Closing(error(kind), fail)

\* QueryResultWriter::no_more_results.
NoMoreResults(fail) ==
    /\ wpc = "result"
    /\ Closing(finalize(FALSE), fail)

\* Drop for QueryResultWriter: a pending terminator is taken and reported on
\* stderr, nothing is written.
DropResult ==
    /\ wpc = "result"
    /\ wpc' = "done"
    /\ last_end' = None
    /\ UNCHANGED <<is_bin, columns, col, finished, last_status_flags, row_data,
                   packets, queue_len, wret, nsets, calls, ends, given, last_given>>
    /\ UNCHANGED nonWriterVars

\* A RowWriter is dropped: it has no Drop of its own, and the Drop of the
\* QueryResultWriter it holds finds no terminator pending. Nothing is written.
DropRow ==
    /\ wpc = "rows"
    /\ wpc' = "done"
    /\ UNCHANGED <<is_bin, last_end, columns, col, finished, last_status_flags,
                   row_data, packets, queue_len, wret, nsets, calls, ends, given,
                   last_given>>
    /\ UNCHANGED nonWriterVars

\* A method of the RowWriter is called.
RowCall ==
    /\ wpc = "rows"
    /\ calls < MaxCalls
    /\ calls' = calls + 1
    /\ UNCHANGED <<is_bin, columns, nsets>>
    /\ UNCHANGED nonWriterVars

\* RowWriter::write_col.
WriteCol(v) ==
    /\ RowCall
    /\ LET r == write_col(row_data, col, v)
       IN  /\ wret' = r.res
           /\ row_data' = r.row_data
           /\ col' = r.col
    /\ given' = given + 1
    /\ UNCHANGED <<wpc, last_end, finished, last_status_flags, packets, queue_len,
                   ends, last_given>>

\* The end of end_row: with the packets of r in the queue, a queue of more
\* than MAX_POOL_ROWS packets is flushed, and the flush may fail.
Flush(r, fail) ==
    LET len == queue_len + Len(r.enqueued)
    IN  IF len <= MAX_POOL_ROWS THEN [queue_len |-> len, res |-> r.res]
        ELSE IF fail = 0 THEN [queue_len |-> 0, res |-> r.res]
        ELSE [queue_len |-> len, res |-> IoError]

Enqueue(r, fail) ==
    /\ packets' = packets \o r.enqueued
    /\ row_data' = r.row_data
    /\ col' = r.col
    /\ queue_len' = Flush(r, fail).queue_len
    /\ wret' = Flush(r, fail).res

\* RowWriter::end_row.
EndRow(fail) ==
    /\ RowCall
    /\ Enqueue(end_row(row_data, col), fail)
    /\ ends' = ends + 1
    /\ last_given' = given
    /\ given' = 0
    /\ UNCHANGED <<wpc, last_end, finished, last_status_flags>>

\* RowWriter::write_row.
WriteRow(row, fail) ==
    /\ RowCall
    /\ LET w == IF columns = <<>> THEN [res |-> Done, row_data |-> row_data, col |-> col]
                ELSE write_cols(row, 1, row_data, col)
       IN  IF w.res.status = "Err"
           THEN /\ wret' = w.res
                /\ row_data' = w.row_data
                /\ col' = w.col
                /\ UNCHANGED <<packets, queue_len>>
           ELSE Enqueue(end_row(w.row_data, w.col), fail)
    /\ ends' = ends + 1
    /\ last_given' = given + Len(row)
    /\ given' = 0
    /\ UNCHANGED <<wpc, last_end, finished, last_status_flags>>

\* RowWriter::set_status_flags.
SetStatusFlags(status_flags) ==
    /\ RowCall
    /\ last_status_flags' = Some(status_flags)
    /\ wret' = Done
    /\ UNCHANGED <<wpc, last_end, col, finished, row_data, packets, queue_len,
                   ends, given, last_given>>

\* RowWriter::finish_one, and RowWriter::finish when last: the row that was
\* begun is ended, finish_inner records the terminator, and finish goes on
\* with no_more_results.
FinishOne(last, fail) ==
    /\ wpc = "rows"
    /\ LET open == columns # <<>> /\ col # 0
           r == IF open THEN end_row(row_data, col)
                ELSE [res |-> Done, row_data |-> row_data, col |-> col,
                      enqueued |-> <<>>]
           f == IF open THEN Flush(r, fail) ELSE [queue_len |-> queue_len, res |-> Done]
           w == WriteAll(IF last
                         THEN <<Terminator(finish_inner, FlagsOf(finish_inner))>>
                         ELSE <<>>, fail)
       IN  /\ last_given' = IF open THEN given ELSE last_given
           /\ given' = IF open THEN 0 ELSE given
           /\ row_data' = r.row_data
           /\ col' = r.col
           /\ queue_len' = f.queue_len
           /\ packets' = packets \o r.enqueued
                         \o (IF f.res.status = "Err" THEN <<>> ELSE w.written)
           /\ IF f.res.status = "Err"
              THEN /\ wpc' = "failed"
                   /\ wret' = f.res
                   /\ UNCHANGED <<last_end, finished, last_status_flags>>
              ELSE /\ finished' = TRUE
                   /\ last_status_flags' = None
                   /\ last_end' = IF last THEN None ELSE Some(finish_inner)
                   /\ wpc' = IF ~last THEN "result" ELSE IF w.ok THEN "done" ELSE "failed"
                   /\ wret' = IF w.ok THEN Done ELSE IoError
    /\ UNCHANGED <<is_bin, columns, nsets, calls, ends>>
    /\ UNCHANGED nonWriterVars

\* RowWriter::error: the error of the QueryResultWriter inside.
RowError(kind, fail) ==
    /\ wpc = "rows"
    /\ Closing(error(kind), fail)

\* The values of a row: one that is not NULL, and NULL.
NotNull == [null |-> FALSE]

Null == [null |-> TRUE]

\* The column lists of a resultset: none, one, ..., the last one NOT NULL
\* when there are several.
ColumnLists ==
    {[i \in 1..n |-> [not_null |-> (i = n /\ n > 1)]] : n \in 0..MaxColumns}

\* The rows handed to write_row: from none to one value too many, and a row
\* that ends in NULL.
RowsToWrite ==
    {[i \in 1..n |-> NotNull] : n \in 0..(MaxColumns + 1)}
    \cup {[i \in 1..MaxColumns |-> IF i = MaxColumns THEN Null ELSE NotNull]}

\* Option<StatusFlags> of the caller.
FlagOptions == {None, Some({"SERVER_STATUS_AUTOCOMMIT"})}

\* Which write of a method fails (0: none).
Fails == {0, 1}

\* The arguments of start, and of start_with_cache for the longest list.
StartArgs ==
    {<<cols, FALSE>> : cols \in ColumnLists}
    \cup {<<cols, TRUE>> : cols \in {c \in ColumnLists : Len(c) = MaxColumns}}

\* A QueryResultWriter fresh from QueryResultWriter::new.
InitWriter ==
    /\ InitSession
    /\ CodecIdle
    /\ CoerceIdle
    /\ wpc = "result"
    /\ is_bin \in BOOLEAN
    /\ last_end = None
    /\ columns = <<>>
    /\ col = 0
    /\ finished = FALSE
    /\ last_status_flags = None
    /\ row_data = None
    /\ packets = <<>>
    /\ queue_len = 0
    /\ wret = NoResult
    /\ nsets = 0
    /\ calls = 0
    /\ ends = 0
    /\ given = 0
    /\ last_given = 0

NextWriter ==
    \/ \E args \in StartArgs, fail \in Fails : Start(args[1], args[2], fail)
    \/ \E status_flags \in FlagOptions, fail \in Fails :
        \/ CompleteOne(7, status_flags, fail)
        \/ Completed(7, status_flags, fail)
    \/ \E fail \in Fails :
        \/ QueryError("ER_UNKNOWN", fail)
        \/ NoMoreResults(fail)
        \/ EndRow(fail)
        \/ RowError("ER_UNKNOWN", fail)
        \/ \E last \in BOOLEAN : FinishOne(last, fail)
        \/ \E row \in RowsToWrite : WriteRow(row, fail)
    \/ DropResult
    \/ DropRow
    \/ \E v \in {NotNull, Null} : WriteCol(v)
    \/ SetStatusFlags({SERVER_MORE_RESULTS_EXISTS})

SpecWriter == InitWriter /\ [][NextWriter]_vars

\* connect from its first step, with every outcome of every operation, and
\* the first events read on the session it returns.
ServerIds == {None, Some(U32(7)), Some(U32Max)}

StartPositions ==
    { StartPosition, BinlogPosition(FileA2, U32(100)), BinlogPosition(FileNoDot, U32(4)) }

ConnectEvents == {Packet("XID_EVENT", lp) : lp \in LogPositions}

InitConnect ==
    /\ server_id \in ServerIds
    /\ wire = <<>>
    /\ reader = [id \in TableIds |-> None]
    /\ next_position \in StartPositions
    /\ current_gtid = None
    /\ failures = 0
    /\ pc = "new"
    /\ until = None
    /\ ret = NoResult
    /\ prev_ok = None
    /\ nread = 0
    /\ in_call = 0
    /\ ev = [status |-> 0, type |-> "none"]
    /\ seen_gno = None
    /\ in_order = TRUE
    /\ current_offset = None
    /\ running = 1
    /\ parked = <<>>
    /\ CodecIdle
    /\ CoerceIdle
    /\ WriterIdle

NextConnect ==
    \/ \E ok \in BOOLEAN :
        \/ OpenConnection(ok)
        \/ SetChecksum(ok)
        \/ SendRegister(ok)
        \/ ReadRegisterReply(ok)
        \/ SendBinlogDump(ok)
        \/ ReadDumpReply(ok)
    \/ Call(None)
    \/ \E e \in ConnectEvents : Other(e)

SpecConnect == InitConnect /\ [][NextConnect]_vars

\* ------------------------------------------------------------------------
\* Properties of the codec (checked under SpecCodec)
\* ------------------------------------------------------------------------

AllDigits(s) == \A i \in 1..Len(s) : IsDigit(s[i])

\* A file of the form basename.suffix with a suffix of 1 to 17 decimal digits.
WellFormed(p) ==
    LET sp == rsplit_once(p.binlog_file)
    IN  /\ sp.some
        /\ Len(sp.v[2]) \in 1..MaxSuffixWidth
        /\ AllDigits(sp.v[2])

BasenameOf(p) == rsplit_once(p.binlog_file).v[1]

SuffixOf(p) == rsplit_once(p.binlog_file).v[2]

\* C1: a position whose file is basename.suffix with 1 to 17 decimal digits
\* encodes, and decoding the encoding gives back the same file string and
\* the same offset.
C1_PositionRoundTrip ==
    (WellFormed(a) /\ cpc \in {"encoded", "decoded"}) =>
        /\ enc.v.ok
        /\ (cpc = "decoded" => dec.v = a)

\* C9: positions with different basenames are incomparable; with the same
\* basename they are ordered by the numeric suffix and, when the numeric
\* suffixes are equal, by the offset.
C9_CompareSuffixThenOffset ==
    (WellFormed(a) /\ WellFormed(b) /\ cpc # "args") =>
        ord.v = IF BasenameOf(a) # BasenameOf(b) THEN None
                ELSE LET na == parse(SuffixOf(a), U64Limbs).v
                         nb == parse(SuffixOf(b), U64Limbs).v
                     IN  IF na # nb THEN Some(Cmp(na, nb))
                         ELSE Some(Cmp(a.position, b.position))

\* The statement of C10 as first made: for two positions of one log family
\* that both encode, Less implies a smaller 128-bit offset and Equal implies
\* the same offset.
C10_PackingMonotoneAnyWidth ==
    (cpc \in {"encoded", "decoded"} /\ enc.v.ok /\ try_from(b).ok) =>
        /\ (ord.v = Some("Less") =>
                Cmp(enc.v.v.offset, try_from(b).v.offset) = "Less")
        /\ (ord.v = Some("Equal") =>
                enc.v.v.offset = try_from(b).v.offset)

\* The numeric suffix field of an offset: bits 64 to 122.
SuffixField(offset) ==
    Shr(Shl(offset, 128 - SuffixLenShift), 128 - SuffixLenShift + SuffixShift)

\* C10: for two positions of one log family that both encode, Less implies
\* a smaller 128-bit offset when the suffix of the first is not wider than
\* the suffix of the second; Equal implies the same numeric suffix field,
\* and the same offset when the two suffixes have the same width and hold
\* decimal digits only.
C10_PackingMonotone ==
    (cpc \in {"encoded", "decoded"} /\ enc.v.ok /\ try_from(b).ok) =>
        /\ ((ord.v = Some("Less") /\ Len(SuffixOf(a)) <= Len(SuffixOf(b))) =>
                Cmp(enc.v.v.offset, try_from(b).v.offset) = "Less")
        /\ ((/\ ord.v = Some("Equal")
             /\ Len(SuffixOf(a)) = Len(SuffixOf(b))
             /\ AllDigits(SuffixOf(a))
             /\ AllDigits(SuffixOf(b))) =>
                enc.v.v.offset = try_from(b).v.offset)
        /\ (ord.v = Some("Equal") =>
                SuffixField(enc.v.v.offset) = SuffixField(try_from(b).v.offset))

\* Two files of one family with different numeric suffixes of the same
\* width, both encoded, the first below the second.
C10_Witness ==
    /\ cpc = "encoded"
    /\ enc.v.ok
    /\ try_from(b).ok
    /\ ord.v = Some("Less")
    /\ a.binlog_file # b.binlog_file
    /\ Len(SuffixOf(a)) = Len(SuffixOf(b))
    /\ Cmp(a.position, b.position) = "Greater"

\* The width field of an offset: bits 123 to 127.
WidthField(offset) == ToNat(Shr(offset, SuffixLenShift))

\* The byte offset field of an offset: bits 0 to 63.
ByteOffsetField(offset) == Cast(offset, U64Limbs)

\* C11: every successful encode gives an offset whose width field is the
\* number of characters of the suffix, between 1 and 17, whose suffix field
\* (bits 64 to 122) is the number the suffix denotes, and whose low 64 bits
\* are the byte offset: no field runs into another.
C11_FieldsDoNotOverlap ==
    (cpc \in {"encoded", "decoded"} /\ enc.v.ok) =>
        LET offset == enc.v.v.offset
        IN  /\ WidthField(offset) = Len(SuffixOf(a))
            /\ WidthField(offset) \in 1..MaxSuffixWidth
            /\ SuffixField(offset) = parse(SuffixOf(a), U128Limbs).v
            /\ ByteOffsetField(offset) = Cast(a.position, U64Limbs)

\* The largest 17-digit suffix with the largest byte offset was encoded.
C11_Witness ==
    /\ cpc = "encoded"
    /\ enc.v.ok
    /\ Len(SuffixOf(a)) = MaxSuffixWidth
    /\ a.position = U32Max
    /\ WidthField(enc.v.v.offset) = MaxSuffixWidth

\* C12: encode fails with the invalid-name error when the file has no '.',
\* with the invalid-suffix error when the suffix is not made of decimal
\* digits only or is wider than 17 characters, and succeeds otherwise.
C12_EncodeErrors ==
    cpc \in {"encoded", "decoded"} =>
        LET sp == rsplit_once(a.binlog_file)
        IN  IF ~sp.some THEN enc.v = Err("Invalid binlog name")
            ELSE IF \/ sp.v[2] = <<>>
                    \/ ~AllDigits(sp.v[2])
                    \/ Len(sp.v[2]) > MaxSuffixWidth
            THEN enc.v = Err("Invalid binlog suffix")
            ELSE enc.v.ok

\* C13: decode of any offset gives the basename, a '.', and the number in
\* the suffix field zero-padded to the width field, with the byte offset
\* field as the position.
C13_DecodeFromFields ==
    cpc = "decoded" =>
        LET offset == enc.v.v.offset
        IN  /\ dec.v.binlog_file =
                    enc.v.v.replication_log_name \o <<".">>
                    \o ZeroPad(FormatDec(SuffixField(offset)), WidthField(offset))
            /\ Cast(dec.v.position, U64Limbs) = ByteOffsetField(offset)

\* ------------------------------------------------------------------------
\* Properties of the session
\* ------------------------------------------------------------------------

\* The last finished call returned Ok, and nothing was read since.
JustReturnedOk ==
    /\ pc = "idle"
    /\ ret.status = "Ok"
    /\ ret.seq = nread

\* The statement of C2 as first made: every Ok result carries a position
\* greater than or equal to the position of the Ok result before it.
C2_OffsetsNeverGoBack ==
    (ret.status = "Ok" /\ prev_ok.some) => ge(ret.pos, prev_ok.v.pos)

\* C2: as long as no event read by the session carried a log_pos below the
\* position reached, or a rotation to a position that is not greater than
\* or equal to it, every Ok result carries a position greater than or equal
\* to the position of the Ok result before it.
C2_OffsetsFollowTheStream ==
    (in_order /\ ret.status = "Ok" /\ prev_ok.some) => ge(ret.pos, prev_ok.v.pos)

\* Two Ok results in a row on an ordered stream, the second one further.
C2_Witness ==
    /\ in_order
    /\ ret.status = "Ok"
    /\ prev_ok.some
    /\ partial_cmp(ret.pos, prev_ok.v.pos) = Some("Greater")
    /\ ret.pos.binlog_file # prev_ok.v.pos.binlog_file

\* C3: a TableAction carries as txid the gno of the last GTID event read
\* before it on the session, and None when there was none.
C3_TxidIsLastGtid ==
    (JustReturnedOk /\ ret.action.type = "TableAction") =>
        ret.action.txid = seen_gno

\* A TableAction returned after a second GTID event replaced the first.
C3_Witness ==
    /\ JustReturnedOk
    /\ ret.action.type = "TableAction"
    /\ ret.action.txid = Some(8)
    /\ nread >= 4

\* The action an event of this type can produce.
ActionOf(e) ==
    IF e.type \in RowsTypes THEN "TableAction"
    ELSE IF e.type = "QUERY_EVENT" THEN "DdlChange"
    ELSE "LogPosition"

\* C4: a step reads at most one event; a call returns only in a step that
\* reads an event, and what it returns belongs to that event; the results
\* come in the order of the events.
C4_ActionsInEventOrder ==
    [][/\ nread' \in {nread, nread + 1}
       /\ (ret' # ret =>
            /\ nread' = nread + 1
            /\ ret'.seq = nread'
            /\ (ret'.status = "Ok" => ret'.action.type = ActionOf(ev'))
            /\ (ret.status # "None" => ret.seq < ret'.seq))]_vars

\* Three events read, the second and the third returned in this order.
C4_Witness ==
    /\ JustReturnedOk
    /\ prev_ok.some
    /\ prev_ok.v.seq = 2
    /\ ret.seq = 3
    /\ ret.action.type = "TableAction"

\* C5: a call with a limit that has read an event and is still in its loop
\* has not reached the limit: after an event that yields no action the call
\* returns LogPosition as soon as next_position >= until.
C5_UntilCheckedAfterEveryEvent ==
    (pc = "loop" /\ in_call > 0 /\ until.some) =>
        ~ge(next_position, from(until.v))

\* C6: an event with a CRC32 footer whose checksum is not the CRC32 of its
\* bytes ends the call fatally and no action is returned for it; an event
\* whose footer names no checksum algorithm is accepted and dispatched.
C6_ChecksumEnforced ==
    /\ (/\ nread > 0
        /\ ev.status = 0
        /\ ev.alg = "CRC32"
        /\ ev.checksum.some
        /\ ev.checksum.v # ev.crc) =>
            /\ pc = "panicked"
            /\ (ret.status # "None" => ret.seq < nread)
    /\ (nread > 0 /\ ev.status = 0 /\ ev.alg \in {"OFF", "None"}) =>
            /\ pc # "panicked"
            /\ next_position.position = ev.log_pos

\* A second event came with a wrong checksum after one without a checksum.
C6_Witness ==
    /\ nread >= 2
    /\ ev.alg = "CRC32"
    /\ ev.checksum.some
    /\ ev.checksum.v # ev.crc
    /\ pc = "panicked"
    /\ next_position.position # ev.log_pos

\* A QUERY event that names databases and whose text does not parse.
BadDdl(e) ==
    /\ e.type = "QUERY_EVENT"
    /\ e.status = 0
    /\ validate_event_checksum(e)
    /\ e.updated_db_names.some
    /\ e.updated_db_names.v # <<>>
    /\ ~from_str(e.query).ok

\* A QUERY event that names databases and whose text parses.
GoodDdl(e) ==
    /\ e.type = "QUERY_EVENT"
    /\ e.status = 0
    /\ validate_event_checksum(e)
    /\ e.updated_db_names.some
    /\ e.updated_db_names.v # <<>>
    /\ from_str(e.query).ok

\* C7: a QUERY event that names databases and whose text does not parse adds
\* one to the failure counter, returns nothing and leaves the call reading;
\* a later QUERY event whose text parses returns its DdlChange (at a position
\* whose file name encodes).
C7_DdlResilience ==
    [][/\ (nread' = nread + 1 /\ BadDdl(ev')) =>
            /\ failures' = failures + 1
            /\ pc' = "loop"
            /\ ret' = ret
       /\ (/\ nread' = nread + 1
           /\ failures > 0
           /\ GoodDdl(ev')
           /\ try_from(next_position').ok) =>
            /\ pc' = "idle"
            /\ ret'.status = "Ok"
            /\ ret'.action.type = "DdlChange"
            /\ ret'.seq = nread']_vars

\* The call that met the statement it could not parse returned the action
\* of the event after it.
C7_Witness ==
    /\ JustReturnedOk
    /\ failures = 1
    /\ in_call >= 2
    /\ ret.action.type \in {"DdlChange", "TableAction"}

\* Some row lacks its before image or its after image.
LacksImage(rows) ==
    \E i \in 1..Len(rows) : rows[i].ok /\ (~rows[i].v[1].some \/ ~rows[i].v[2].some)

\* Every row decodes, has both images, and every cell of them converts.
FullRows(rows, tme) ==
    \A i \in 1..Len(rows) :
        /\ rows[i].ok
        /\ rows[i].v[1].some
        /\ rows[i].v[2].some
        /\ binlog_row_to_noria_row(rows[i].v[1].v, tme).ok
        /\ binlog_row_to_noria_row(rows[i].v[2].v, tme).ok

\* C8: an UPDATE_ROWS event with n rows returns one TableAction with 2n
\* operations: for each row in order, DeleteRow of the before image, then
\* Insert of the after image (when the table map is known and every cell
\* converts); with a row that lacks an image the call returns an error and
\* no action.
C8_UpdateFanOut ==
    (/\ pc = "idle"
     /\ ret.status # "None"
     /\ ret.seq = nread
     /\ ev.type = "UPDATE_ROWS_EVENT"
     /\ reader[ev.table_id].some) =>
        LET rows == ev.rows
            tme == reader[ev.table_id].v
        IN  /\ LacksImage(rows) => ret.status = "Err"
            /\ FullRows(rows, tme) =>
                 /\ ret.status = "Ok"
                 /\ ret.action.type = "TableAction"
                 /\ Len(ret.action.actions) = 2 * Len(rows)
                 /\ \A i \in 1..Len(rows) :
                      /\ ret.action.actions[2 * i - 1] =
                            DeleteRow(binlog_row_to_noria_row(rows[i].v[1].v, tme).v)
                      /\ ret.action.actions[2 * i] =
                            Insert(binlog_row_to_noria_row(rows[i].v[2].v, tme).v)

\* An UPDATE_ROWS event with two different rows returned four operations.
C8_Witness ==
    /\ JustReturnedOk
    /\ ev.type = "UPDATE_ROWS_EVENT"
    /\ Len(ev.rows) = 2
    /\ ev.rows[1] # ev.rows[2]
    /\ Len(ret.action.actions) = 4

\* The statement of C14 as first made: the position returned with an action
\* has as offset the log_pos of the header of the event that caused the
\* return, whatever the type of the event.
C14_OffsetIsHeaderLogPos ==
    JustReturnedOk => ret.pos.position = ev.log_pos

\* C14: the position returned with an action has as offset the log_pos of
\* the header of the event that caused the return, except after a ROTATE
\* event, where it is the position the event names.
C14_OffsetIsHeaderLogPosButRotate ==
    JustReturnedOk =>
        ret.pos.position = IF ev.type = "ROTATE_EVENT"
                           THEN Cast(ev.position, U32Limbs)
                           ELSE ev.log_pos

\* A rows event moved the position and returned its action at its log_pos.
C14_Witness ==
    /\ JustReturnedOk
    /\ ret.action.type = "TableAction"
    /\ prev_ok.some
    /\ prev_ok.v.pos.position # ev.log_pos
    /\ ret.pos.position = ev.log_pos

\* C15: a ROTATE event whose position fits a u32 replaces next_position with
\* the name and the position of the event and ends the call; the call
\* returns LogPosition with exactly that position and its encoding when the
\* name encodes, and the encoding error when it does not. A position that
\* does not fit a u32 is a panic, and nothing is returned.
C15_RotateReplacesPosition ==
    (ev.type = "ROTATE_EVENT" /\ ev.status = 0 /\ validate_event_checksum(ev)) =>
        IF ~u32_try_from(ev.position).ok
        THEN /\ pc = "panicked"
             /\ (ret.status # "None" => ret.seq < nread)
        ELSE /\ next_position = BinlogPosition(ev.name, Cast(ev.position, U32Limbs))
             /\ Cast(next_position.position, U64Limbs) = ev.position
             /\ ret.seq = nread
             /\ IF try_from(next_position).ok
                THEN /\ ret.status = "Ok"
                     /\ ret.action = LogPosition
                     /\ ret.pos = next_position
                     /\ ret.offset = try_from(next_position).v
                ELSE ret.status = "Err"

\* A ROTATE event named the next file at offset 4 and its header another
\* log_pos; the call returned the named position.
C15_Witness ==
    /\ JustReturnedOk
    /\ ev.type = "ROTATE_EVENT"
    /\ ev.name = FileA2
    /\ ev.log_pos # U32(4)
    /\ ret.action = LogPosition
    /\ ret.pos = BinlogPosition(FileA2, U32(4))

\* C16: what connect has done on the connection is always a beginning of:
\* open, SET @master_binlog_checksum='CRC32', REGISTER_SLAVE, one packet
\* read, BINLOG_DUMP with the starting file and offset, one packet read,
\* each once, both commands with the configured server id or u32::MAX - 55;
\* only the last operation done can have failed, and then connect has
\* failed and does nothing more; the session exists, and events are read,
\* only after all six succeeded.
C16_ConnectInOrder ==
    LET id == IF server_id.some THEN server_id.v ELSE <<Limb - 56, Limb - 1>>
        start == IF nread = 0 \/ Len(wire) < 5 THEN next_position
                 ELSE BinlogPosition(wire[5].filename, wire[5].pos)
        hs == Handshake(id, start)
        n == Len(wire)
    IN  /\ n <= Len(hs)
        /\ \A i \in 1..n : [wire[i] EXCEPT !.ok = TRUE] = hs[i]
        /\ \A i \in 1..(n - 1) : wire[i].ok
        /\ (pc = "connect_failed") <=> (n > 0 /\ ~wire[n].ok)
        /\ pc \in {"idle", "loop", "panicked"} => wire = hs
        /\ nread > 0 => (wire = hs /\ pc # "connect_failed")

\* A connector without a configured server id connected and read an event.
C16_Witness ==
    /\ server_id = None
    /\ nread > 0
    /\ Len(wire) = 6
    /\ wire[3].server_id = <<Limb - 56, Limb - 1>>
    /\ wire[5].server_id = wire[3].server_id
    /\ wire[5].filename = FileA2

\* The last packet read passed next_event and was dispatched.
Dispatched == nread > 0 /\ ev.status = 0 /\ validate_event_checksum(ev)

\* C17: a WRITE_ROWS, UPDATE_ROWS or DELETE_ROWS event whose table id has no
\* table map in the reader makes the call return an error, and no action is
\* returned for the event.
C17_UnknownTableIsError ==
    (Dispatched /\ ev.type \in RowsTypes /\ ~reader[ev.table_id].some) =>
        /\ ret.status = "Err"
        /\ ret.seq = nread

\* A DELETE_ROWS event came before any table map for its table id, after
\* another event had been read, and the call returned an error.
C17_Witness ==
    /\ Dispatched
    /\ nread >= 2
    /\ ev.type = "DELETE_ROWS_EVENT"
    /\ ~reader[ev.table_id].some
    /\ ret.status = "Err"
    /\ ret.seq = nread

\* Every row decodes, has image k (1 before, 2 after) and its cells convert.
RowsHaveImage(rows, tme, k) ==
    \A i \in 1..Len(rows) :
        /\ rows[i].ok
        /\ rows[i].v[k].some
        /\ binlog_row_to_noria_row(rows[i].v[k].v, tme).ok

\* Some row lacks image k.
LacksImageOf(rows, k) ==
    \E i \in 1..Len(rows) : rows[i].ok /\ ~rows[i].v[k].some

\* C18: with the table map of its table id known (and cells that convert),
\* a WRITE_ROWS event of n rows returns one TableAction of n Insert built
\* from the after images in row order, a DELETE_ROWS event of n rows one of
\* n DeleteRow built from the before images in row order; the table is the
\* database and the name of the table map; a row without the image needed
\* makes the call return an error and no action.
C18_WriteAndDeleteFanOut ==
    (/\ pc = "idle"
     /\ ret.status # "None"
     /\ ret.seq = nread
     /\ ev.type \in {"WRITE_ROWS_EVENT", "DELETE_ROWS_EVENT"}
     /\ reader[ev.table_id].some) =>
        LET rows == ev.rows
            tme == reader[ev.table_id].v
            k == IF ev.type = "WRITE_ROWS_EVENT" THEN 2 ELSE 1
        IN  /\ LacksImageOf(rows, k) => ret.status = "Err"
            /\ RowsHaveImage(rows, tme, k) =>
                 /\ ret.status = "Ok"
                 /\ ret.action.type = "TableAction"
                 /\ ret.action.table =
                        [schema |-> Some(tme.database_name), name |-> tme.table_name]
                 /\ Len(ret.action.actions) = Len(rows)
                 /\ \A i \in 1..Len(rows) :
                      ret.action.actions[i] =
                        IF k = 2
                        THEN Insert(binlog_row_to_noria_row(rows[i].v[2].v, tme).v)
                        ELSE DeleteRow(binlog_row_to_noria_row(rows[i].v[1].v, tme).v)

\* A DELETE_ROWS event with two rows of different before and after images
\* returned two DeleteRow.
C18_Witness ==
    /\ JustReturnedOk
    /\ ev.type = "DELETE_ROWS_EVENT"
    /\ Len(ev.rows) = 2
    /\ ev.rows[1] # ev.rows[2]
    /\ ev.rows[1].v[2].some
    /\ Len(ret.action.actions) = 2
    /\ ret.action.table = [schema |-> Some("db"), name |-> "t"]

\* C19: a V1 rows event is fatal: the call in progress panics, and no result
\* is returned for the event.
C19_RowsV1IsFatal ==
    (Dispatched /\ ev.type \in RowsV1Types) =>
        /\ pc = "panicked"
        /\ (ret.status # "None" => ret.seq < nread)

\* An UPDATE_ROWS_EVENT_V1 ended a session that had returned a result.
C19_Witness ==
    /\ Dispatched
    /\ ev.type = "UPDATE_ROWS_EVENT_V1"
    /\ pc = "panicked"
    /\ ret.status = "Ok"

\* C20: a ROTATE event leaves the table maps of the reader as they are (only
\* a TABLE_MAP event changes the map of a table id, and only its own), and
\* a rows event whose table id has a map returns the TableAction of that
\* table whenever its rows convert.
C20_RotateKeepsTableMaps ==
    [][/\ (nread' = nread + 1 /\ ev'.type = "ROTATE_EVENT") => reader' = reader
       /\ \A id \in TableIds :
            reader'[id] # reader[id] =>
                ev'.type = "TABLE_MAP_EVENT" /\ ev'.table_id = id
       /\ (/\ nread' = nread + 1
           /\ ev'.type \in RowsTypes
           /\ reader[ev'.table_id].some
           /\ ret'.status = "Ok") =>
                ret'.action.table =
                    [schema |-> Some(reader[ev'.table_id].v.database_name),
                     name |-> reader[ev'.table_id].v.table_name]]_vars

\* A table map, then a ROTATE to the next file that returned, then a rows
\* event of that table that returned its TableAction.
C20_Witness ==
    /\ JustReturnedOk
    /\ ret.action.type = "TableAction"
    /\ ret.seq >= 3
    /\ prev_ok.some
    /\ prev_ok.v.seq = ret.seq - 1
    /\ prev_ok.v.pos = BinlogPosition(FileA2, U32(4))
    /\ ret.pos.binlog_file = FileA2

\* A QUERY event whose status vars carry no UPDATED_DB_NAMES or an empty list.
NoSchema(e) ==
    /\ e.type = "QUERY_EVENT"
    /\ e.status = 0
    /\ validate_event_checksum(e)
    /\ ~(e.updated_db_names.some /\ e.updated_db_names.v # <<>>)

\* C21: a QUERY event with a non-empty UPDATED_DB_NAMES list and a text that
\* parses ends the call: with DdlChange whose schema is the first listed name
\* and whose changes are the parsed statement when the position reached
\* encodes, with the error of the encoding otherwise. A QUERY event without
\* the list or with an empty one returns nothing, leaves the call reading and
\* leaves the failure counter alone whether its text would parse or not.
C21_QuerySchema ==
    [][/\ (nread' = nread + 1 /\ GoodDdl(ev')) =>
            /\ pc' = "idle"
            /\ ret'.seq = nread'
            /\ IF try_from(next_position').ok
               THEN /\ ret'.status = "Ok"
                    /\ ret'.action =
                         DdlChange(ev'.updated_db_names.v[1], from_str(ev'.query).v)
               ELSE ret'.status = "Err"
       /\ (nread' = nread + 1 /\ NoSchema(ev')) =>
            /\ pc' = "loop"
            /\ ret' = ret
            /\ failures' = failures]_vars

\* A DdlChange returned for an event that lists two names, after an event
\* without names whose text does not parse.
C21_Witness ==
    /\ JustReturnedOk
    /\ ret.action.type = "DdlChange"
    /\ ret.action.schema = "db2"
    /\ ev.updated_db_names.v = <<"db2", "db">>
    /\ in_call >= 2
    /\ failures = 0

\* C22: a packet whose first byte is not 0 fails the assertion of next_event
\* before the reader is given it: the call panics, nothing is returned, and
\* the table maps, the position and the transaction id stay as they were.
C22_StatusByteIsFatal ==
    [][(nread' = nread + 1 /\ ev'.status # 0) =>
            /\ pc' = "panicked"
            /\ ret' = ret
            /\ reader' = reader
            /\ next_position' = next_position
            /\ current_gtid' = current_gtid]_vars

\* The call panicked on a packet that carries a table map behind a first byte
\* that is not 0, and the reader does not know the table.
C22_Witness ==
    /\ pc = "panicked"
    /\ ev.status = 254
    /\ ev.type = "TABLE_MAP_EVENT"
    /\ ~reader[ev.table_id].some
    /\ in_call >= 2

\* The cell is no value and no JSONB, or JSONB that fails to decode.
BadCell(cell) ==
    \/ cell.kind \notin {"Value", "Jsonb"}
    \/ cell.kind = "Jsonb" /\ ~cell.json.ok /\ cell.json.err # "Opaque"

\* What a cell of a translated row is.
Normalized(cell, tme, idx) ==
    IF cell.kind = "Value"
    THEN binlog_val_to_noria_val(cell.val, tme.column_types[idx],
                                 tme.column_metadata[idx]).v
    ELSE IF cell.json.ok THEN DfText(cell.json.v)
    ELSE DfByteArray(cell.data)

\* C23: a translated row has one value per cell, in cell order: a Value cell
\* coerced with the kind and meta of its column, a JSONB cell as its text, or
\* as its payload bytes when opaque. A row with a cell of another variant or
\* with JSONB that fails to decode gives no row at all.
C23_RowCellByCell ==
    (arg.fn = "row" /\ out.some) =>
        LET row == arg.binlog_row
        IN  /\ out.v.ok =>
                /\ Len(out.v.v) = Len(row)
                /\ \A i \in 1..Len(row) : ~BadCell(row[i])
                /\ \A i \in 1..Len(row) : out.v.v[i] = Normalized(row[i], arg.tme, i)
            /\ (\E i \in 1..Len(row) : BadCell(row[i])) => ~out.v.ok

\* A row of an opaque JSONB cell and the epoch 0 in a timestamp column was
\* translated to the payload bytes and NULL.
C23_Witness ==
    /\ arg.fn = "row"
    /\ out.some
    /\ out.v.ok
    /\ Len(arg.binlog_row) = MaxCells
    /\ arg.binlog_row[1].kind = "Jsonb"
    /\ out.v.v[1] = DfByteArray(<<"[", "]">>)
    /\ out.v.v[MaxCells] = DfNone

\* The calendar date of a day counted from 1970-01-01 (days from 0000-03-01
\* on), as chrono shows it.
CivilFromDays(z) ==
    LET z0 == z + 719468
        era == z0 \div 146097
        doe == z0 % 146097
        yoe == (doe - doe \div 1460 + doe \div 36524 - doe \div 146096) \div 365
        doy == doe - (365 * yoe + yoe \div 4 - yoe \div 100)
        mp == (5 * doy + 2) \div 153
        d == doy - (153 * mp + 2) \div 5 + 1
        m == IF mp < 10 THEN mp + 3 ELSE mp - 9
        y == yoe + era * 400 + (IF m <= 2 THEN 1 ELSE 0)
    IN  <<y, m, d>>

\* Year, month, day, hour, minute, second of a timestamp after the epoch.
DateTimeOf(secs) ==
    LET at == DayAndSecond(secs)
    IN  CivilFromDays(ToNat(at.days))
        \o <<at.second \div 3600, (at.second \div 60) % 60, at.second % 60>>

\* The input is a TIMESTAMP2 payload with this relation of meta to [0].
TimestampArg(precision0) ==
    /\ arg.fn = "val"
    /\ out.some
    /\ arg.col_kind = "TIMESTAMP2"
    /\ (arg.meta = <<0>>) = precision0

\* C24: for a timestamp column with meta [0] and a payload that is a count of
\* seconds in decimal, the count 0 becomes NULL, every other count within the
\* dates chrono holds (every count of 32 bits is) becomes the timestamp of
\* that second with no nanoseconds, and 1700000000 is 2023-11-14T22:13:20;
\* a payload that is no count, or a count beyond those dates, panics.
C24_EpochSeconds ==
    TimestampArg(TRUE) =>
        LET epoch == parse_i64(arg.val.b)
            zero == ToLimbs(0, U32Limbs)
        IN  IF ~epoch.ok THEN IsPanic(out.v)
            ELSE IF IsZero(epoch.v.mag) THEN out.v = Ok(DfNone)
            ELSE IF ~from_timestamp(epoch.v, zero).ok THEN IsPanic(out.v)
            ELSE /\ out.v = Ok([t |-> "TimestampTz", secs |-> epoch.v, nsecs |-> zero])
                 /\ (arg.val.b = Dec(<<1, 7, 0, 0, 0, 0, 0, 0, 0, 0>>) =>
                        DateTimeOf(out.v.v.secs) = <<2023, 11, 14, 22, 13, 20>>)

\* The payload 1700000000 under meta [0] came out as a timestamp.
C24_Witness ==
    /\ TimestampArg(TRUE)
    /\ arg.val.b = Dec(<<1, 7, 0, 0, 0, 0, 0, 0, 0, 0>>)
    /\ out.v.ok
    /\ out.v.v.t = "TimestampTz"
    /\ DateTimeOf(out.v.v.secs) = <<2023, 11, 14, 22, 13, 20>>

\* A fraction of one to six decimal digits.
ShortFraction(frac) == Len(frac) \in 1..6 /\ AllDigits(frac)

\* C25: for a timestamp column with another meta and a payload
\* "<secs>.<frac>" with a fraction of one to six digits, the result is the
\* timestamp of secs seconds and frac * 32 nanoseconds; the product is below
\* 10^9 and fits 32 bits, so the build does not matter.
C25_FractionTimes32 ==
    (TimestampArg(FALSE) /\ split_once(arg.val.b).some) =>
        LET parts == split_once(arg.val.b).v
            secs == parse_i64(parts[1])
        IN  (secs.ok /\ ShortFraction(parts[2])) =>
                LET frac == ToNat(parse(parts[2], U32Limbs).v)
                IN  /\ frac * 32 < 10 ^ 9
                    /\ out.v = Ok([t |-> "TimestampTz", secs |-> secs.v,
                                   nsecs |-> ToLimbs(frac * 32, U32Limbs)])

\* The payload 1700000000.999999 under meta [6] came out with 31999968
\* nanoseconds.
C25_Witness ==
    /\ TimestampArg(FALSE)
    /\ arg.meta = <<6>>
    /\ arg.val.b = Dec(<<1, 7, 0, 0, 0, 0, 0, 0, 0, 0>>) \o <<".">>
                    \o Dec(<<9, 9, 9, 9, 9, 9>>)
    /\ out.v.ok
    /\ ToNat(out.v.v.nsecs) = 31999968

\* What the claim calls the state of a session.
Owned(s) ==
    [next_position |-> next_position_of(s), current_gtid |-> current_gtid_of(s),
     reader |-> reader_of(s)]

\* C26: a step in which a connector reads an event leaves the position, the
\* transaction id and the table maps of every other connector as they were,
\* a step that reads nothing leaves those of every connector as they were,
\* and a call of next_action starts on a connector only when no call is in
\* progress on it.
C26_SessionsIsolated ==
    [][/\ \A s \in SessionIds :
            (s # running' \/ nread' = nread) =>
                /\ next_position_of(s)' = next_position_of(s)
                /\ current_gtid_of(s)' = current_gtid_of(s)
                /\ reader_of(s)' = reader_of(s)
       /\ \A s \in SessionIds :
            (pc_of(s)' = "loop" /\ pc_of(s) # "loop") => pc_of(s) = "idle"
       /\ (nread' # nread) => (running' = running /\ pc = "loop")]_vars

\* Two connectors are inside next_action at once, at different positions,
\* one knowing a table the other does not know.
C26_Witness ==
    /\ \A s \in SessionIds : pc_of(s) = "loop"
    /\ \E s, t \in SessionIds :
        /\ next_position_of(s) # next_position_of(t)
        /\ current_gtid_of(s) # current_gtid_of(t)
        /\ reader_of(s)[33].some
        /\ ~reader_of(t)[33].some

\* ------------------------------------------------------------------------
\* Properties of the result writers
\* ------------------------------------------------------------------------

\* Packet i of the response ends a resultset.
IsTerminator(p) == p.type \in {"OK", "EOF"}

\* C27: every OK or EOF packet that is followed by another packet of the
\* response carries SERVER_MORE_RESULTS_EXISTS, and the terminator that
\* no_more_results writes carries the flags the caller gave and no other.
C27_MoreResultsFlag ==
    [][/\ \A i \in 1..(Len(packets') - 1) :
            IsTerminator(packets'[i]) =>
                SERVER_MORE_RESULTS_EXISTS \in packets'[i].status
       /\ (/\ wpc = "result"
           /\ wpc' = "done"
           /\ last_end.some
           /\ Len(packets') = Len(packets) + 1) =>
            packets'[Len(packets')] = Terminator(last_end.v, FlagsOf(last_end.v))]_vars

\* A response of two resultsets and more: the first terminator carries the
\* flag, the last one, written by no_more_results, does not.
C27_Witness ==
    /\ wpc = "done"
    /\ Len(packets) >= 3
    /\ IsTerminator(packets[1])
    /\ SERVER_MORE_RESULTS_EXISTS \in packets[1].status
    /\ IsTerminator(packets[Len(packets)])
    /\ SERVER_MORE_RESULTS_EXISTS \notin packets[Len(packets)].status
    /\ \E i \in 1..Len(packets) : packets[i].type = "COLDEFS"

\* C28: an error packet is the last packet of the response: it comes after
\* the terminator that was pending (written as one that is followed), no
\* terminator is pending after it and the writer is given up.
C28_ErrorEndsResponse ==
    [][/\ \A i \in 1..Len(packets') :
            packets'[i].type = "ERR" =>
                /\ i = Len(packets')
                /\ wpc' = "done"
                /\ ~last_end'.some
       /\ (Len(packets') > Len(packets) /\ packets'[Len(packets')].type = "ERR") =>
            packets' = packets
                \o (IF last_end.some
                    THEN <<Terminator(last_end.v,
                                      FlagsOf(last_end.v)
                                      \cup {SERVER_MORE_RESULTS_EXISTS})>>
                    ELSE <<>>)
                \o <<packets'[Len(packets')]>>]_vars

\* An error written on the QueryResultWriter while a terminator was pending.
C28_Witness ==
    /\ wpc = "done"
    /\ Len(packets) >= 2
    /\ packets[Len(packets)].type = "ERR"
    /\ IsTerminator(packets[Len(packets) - 1])
    /\ wret = Done

\* C29: on a resultset of no columns start writes no column definitions,
\* write_col, end_row and write_row put nothing on the wire, and finishing
\* records (finish_one) or writes (finish) an OK terminator whose row count
\* is the number of end_row and write_row calls made.
C29_ZeroColumns ==
    [][/\ (wpc = "result" /\ wpc' = "rows" /\ columns' = <<>>) =>
            \A i \in (Len(packets) + 1)..Len(packets') :
                packets'[i].type # "COLDEFS"
       /\ (wpc = "rows" /\ columns = <<>>) =>
            /\ wpc' = "rows" => packets' = packets
            /\ wpc' = "result" =>
                /\ packets' = packets
                /\ last_end' = Some(FinalizerOk(ends, 0, last_status_flags))
            /\ (/\ wpc' = "done"
                /\ packets' # packets
                /\ packets'[Len(packets')].type # "ERR") =>
                packets' = packets
                    \o <<OkPacket(ends, 0, IF last_status_flags.some
                                           THEN last_status_flags.v ELSE NoFlags)>>]_vars

\* A resultset of no columns finished after a write_col and two ends of row.
C29_Witness ==
    /\ wpc = "result"
    /\ columns = <<>>
    /\ finished
    /\ ends = 2
    /\ calls >= 4
    /\ last_end = Some(FinalizerOk(2, 0, None))
    /\ packets = <<>>

\* The statement of C30: a row packet is enqueued only by the end of a row
\* for which exactly columns.len() values were handed over since the end of
\* the row before, and the end of a row with another count returns
\* InvalidData and enqueues nothing.
C30_RowsConform ==
    [][(wpc = "rows" /\ columns # <<>>) =>
        /\ (/\ Len(packets') > Len(packets)
            /\ packets'[Len(packets) + 1].type = "ROW") =>
                last_given' = Len(columns)
        /\ (ends' = ends + 1 /\ last_given' # Len(columns)) =>
                /\ wret'.status = "Err"
                /\ wret'.kind = "InvalidData"
                /\ packets' = packets]_vars

\* The statement of C31: a writer given up while the end-of-records marker
\* of its last resultset is owed (a terminator is pending on the
\* QueryResultWriter, or a RowWriter is open) still sends a closing packet
\* to the client, whether by no_more_results, finish, error or by its drop.
C31_DropSendsMarker ==
    [][(/\ wpc \in {"result", "rows"}
        /\ wpc' = "done"
        /\ (last_end.some \/ wpc = "rows")) =>
            \E i \in (Len(packets) + 1)..Len(packets') :
                packets'[i].type \in {"OK", "EOF", "ERR"}]_vars

\* C32: an event of a type the match does not name moves only the offset of
\* next_position, to its log_pos: the file, current_gtid, the table maps and
\* the failure count stay, and the call returns in that turn only through
\* the check of the limit, with LogPosition.
C32_OtherEventsAreIgnored ==
    [][(/\ nread' = nread + 1
        /\ ev'.type \in OtherTypes
        /\ ev'.status = 0
        /\ validate_event_checksum(ev')) =>
            /\ next_position' = [next_position EXCEPT !.position = ev'.log_pos]
            /\ current_gtid' = current_gtid
            /\ reader' = reader
            /\ failures' = failures
            /\ UNCHANGED <<server_id, wire, current_offset>>
            /\ pc' \in {"loop", "idle"}
            /\ pc' = "idle" =>
                /\ until_reached(next_position')
                /\ ret'.status = "Ok" => ret'.action = LogPosition]_vars

\* An ignored event was read after a GTID event, moved the offset, and the
\* loop goes on.
C32_Witness ==
    /\ Dispatched
    /\ ev.type \in OtherTypes
    /\ current_gtid # None
    /\ next_position.position = ev.log_pos
    /\ next_position # StartPosition
    /\ pc = "loop"

\* C33: a call that returns an error after dispatching an event leaves
\* next_position as the event set it: the offset is the event's log_pos (for
\* a ROTATE the position is the file and offset of its body), whatever the
\* position of the last successful return was.
C33_ErrorKeepsFailedPosition ==
    [][(/\ pc = "loop"
        /\ pc' = "idle"
        /\ nread' = nread + 1
        /\ ret'.status = "Err") =>
            next_position' =
                IF ev'.type = "ROTATE_EVENT"
                THEN BinlogPosition(ev'.name, Cast(ev'.position, U32Limbs))
                ELSE [next_position EXCEPT !.position = ev'.log_pos]]_vars

\* A call failed on a rows event of an unknown table after an earlier call
\* had returned a position, and the session is past that position.
C33_Witness ==
    /\ pc = "idle"
    /\ ret.status = "Err"
    /\ Dispatched
    /\ ev.type = "WRITE_ROWS_EVENT"
    /\ prev_ok.some
    /\ next_position.position = ev.log_pos
    /\ next_position # prev_ok.v.pos

FileB1 == <<"b", ".", "0", "1">>

FilePlus == <<"a", ".", "+", "1">>

FileLetter == <<"a", ".", "x">>

\* The files the server rotates to.
RotatedFiles == {FileA2, FileB1, FileNoDot, FilePlus, FileLetter}

\* The limits a caller passes: one of the family of the session, one of
\* another family.
Limits ==
    {None} \cup {Some(try_from(BinlogPosition(f, U32(50))).v) : f \in {FileA1, FileB1}}

LimitEvents ==
    {RotateEvent(U32(50), f, U64(4)) : f \in RotatedFiles}
    \cup {Packet("XID_EVENT", lp) : lp \in LogPositions}
    \cup {GtidEvent(U32(100), 7), TableMap33(U32(100))}

NextLimit ==
    \/ \E u \in Limits : Call(u)
    \/ \E e \in LimitEvents :
        \/ Rotate(e)
        \/ Other(e)
        \/ Gtid(e)
        \/ TableMap(e)

SpecLimit == Init /\ [][NextLimit]_vars

\* The two positions are of different families, or a file has no '.' or a
\* suffix that is not a string of decimal digits.
Incomparable(p, q) ==
    LET s == rsplit_once(p.binlog_file)
        o == rsplit_once(q.binlog_file)
    IN  \/ ~s.some
        \/ ~o.some
        \/ s.v[1] # o.v[1]
        \/ s.v[2] = <<>> \/ ~AllDigits(s.v[2])
        \/ o.v[2] = <<>> \/ ~AllDigits(o.v[2])

\* The statement of C35: a turn on an event that yields nothing, taken with
\* a limit that is incomparable with the position the turn leaves, does not
\* end the call.
C35_IncomparableLimitNeverFires ==
    [][(/\ pc = "loop"
        /\ nread' = nread + 1
        /\ ev'.type \in OtherTypes \cup {"GTID_EVENT", "TABLE_MAP_EVENT"}
        /\ until.some
        /\ Incomparable(next_position', from(until.v))) =>
            pc' = "loop"]_vars

\* The statement of C36: the comparison is a consistent partial order. It
\* answers Equal exactly for equal positions, Less exactly when the reversed
\* comparison answers Greater, and Less is transitive.
C36_ConsistentPartialOrder ==
    cpc # "args" =>
        /\ (ord.v = Some("Equal")) <=> (a = b)
        /\ (ord.v = Some("Less")) <=> (partial_cmp(b, a) = Some("Greater"))
        /\ \A c \in Positions :
            (ord.v = Some("Less") /\ partial_cmp(b, c) = Some("Less")) =>
                partial_cmp(a, c) = Some("Less")

\* ------------------------------------------------------------------------
\* next_action called with any offset as its first argument
\* ------------------------------------------------------------------------

\* The offsets a caller passes as current_offset: one behind the session in
\* its own family, one of another family.
CurrentOffsets ==
    {try_from(BinlogPosition(FileA1, U32(100))).v,
     try_from(BinlogPosition(FileB1, U32(4))).v}

ArgumentEvents ==
    {RotateEvent(U32(50), FileA2, U64(4)), GtidEvent(U32(100), 7),
     TableMap33(U32(100))}
    \cup {Packet("XID_EVENT", lp) : lp \in LogPositions}

NextArgument ==
    \/ \E current \in CurrentOffsets, u \in Untils : CallWith(current, u)
    \/ \E e \in ArgumentEvents :
        \/ Rotate(e)
        \/ Other(e)
        \/ Gtid(e)
        \/ TableMap(e)

SpecArgument == Init /\ [][NextArgument]_vars

\* C37: the first argument of next_action reaches nothing: starting a call
\* leaves every field of the session as it was whatever offset is passed,
\* and the offset a call returns is the encoding of the position the
\* session has reached, not a function of the offset it was given.
C37_ArgumentIsIgnored ==
    [][/\ (pc = "idle" /\ pc' # "idle") =>
            /\ pc' = "loop"
            /\ UNCHANGED <<server_id, wire, reader, next_position, current_gtid,
                           failures, ret, prev_ok, nread, ev, seen_gno, in_order>>
       /\ (pc = "loop" /\ pc' = "idle" /\ ret'.status = "Ok") =>
            /\ ret'.pos = next_position'
            /\ ret'.offset = try_from(next_position').v
            /\ ret'.action.type \in {"LogPosition", "TableAction", "DdlChange"}]_vars

\* A call given the offset of another log family returned the position of
\* the session's own family.
C37_Witness ==
    /\ pc = "idle"
    /\ current_offset = Some(try_from(BinlogPosition(FileB1, U32(4))).v)
    /\ ret.status = "Ok"
    /\ ret.pos = BinlogPosition(FileA1, U32(100))
    /\ ret.pos = next_position

\* The terminators among the packets ps.
Terminators(ps) == Cardinality({i \in 1..Len(ps) : IsTerminator(ps[i])})

bitmap_len(n) == (n + 7 + 2) \div 8

\* byte | (1u8 << k)
BitOr(byte, k) ==
    IF (byte \div (2 ^ k)) % 2 = 1 THEN byte ELSE byte + 2 ^ k

\* The place of the NULL bit of column c counted without the two spare bits.
null_bit_unshifted(c) == [byte |-> c \div 8, bit |-> c % 8]

\* The byte of the bitmap and the bit in it for column c.
null_bit(c) == [byte |-> (c + 2) \div 8, bit |-> (c + 2) % 8]

\* The bytes one non-NULL value takes (to_mysql_bin): one stands for them.
ValueBytes == <<255>>

\* write_col of the binary protocol on nullable columns, on the bytes of the
\* row: w is [row_data, bitmap_idx, col] and n the number of columns. An
\* index past the end of the row panics.
write_col_bytes(w, n, v) ==
    LET row1 == IF w.col = 0
                THEN w.row_data \o <<0>> \o [i \in 1..bitmap_len(n) |-> 0]
                ELSE w.row_data
        bitmap_idx == IF w.col = 0 THEN Len(w.row_data) + 1 ELSE w.bitmap_idx
        at == null_bit(w.col)
        idx == bitmap_idx + at.byte
    IN  IF ~v.null
        THEN Ok([row_data |-> row1 \o ValueBytes, bitmap_idx |-> bitmap_idx,
                 col |-> w.col + 1, null |-> FALSE])
        ELSE IF idx >= Len(row1) THEN Panic("index out of bounds")
        ELSE Ok([row_data |-> [row1 EXCEPT ![idx + 1] = BitOr(@, at.bit)],
                 bitmap_idx |-> bitmap_idx, col |-> w.col + 1, null |-> TRUE])

\* A RowWriter of the binary protocol on 1 to MaxBitmapColumns nullable
\* columns, no row begun.
InitBitmap ==
    /\ InitSession
    /\ CodecIdle
    /\ WriterIdle
    /\ overflow_checks = TRUE
    /\ arg \in {[fn |-> "write_col", ncols |-> n] : n \in 1..MaxBitmapColumns}
    /\ out = Ok([row_data |-> <<>>, bitmap_idx |-> 0, col |-> 0, null |-> FALSE])

\* write_col(v) on the next column of the row.
WriteColBytes(v) ==
    /\ arg.fn = "write_col"
    /\ out.ok
    /\ out.v.col < arg.ncols
    /\ out' = write_col_bytes(out.v, arg.ncols, v)
    /\ UNCHANGED <<overflow_checks, arg>>
    /\ UNCHANGED <<sessionVars, codecVars, fleetVars, writerVars>>

NextBitmap == \E v \in {NotNull, Null} : WriteColBytes(v)

SpecBitmap == InitBitmap /\ [][NextBitmap]_vars

\* Bit j of the bitmap that starts after byte k of the row r.
BitmapBit(r, k, j) == (r[k + 1 + j \div 8] \div (2 ^ (j % 8))) % 2

\* C39: writing NULL to column c < columns.len() does not panic: byte
\* (c + 2) / 8 lies in the bitmap_len bytes kept after the header byte, bit
\* (c + 2) % 8 of it is set afterwards, and every other bit of the bitmap
\* is as it was (all clear when the write begins the row).
C39_NullBitmap ==
    [][arg.fn = "write_col" =>
        /\ out'.ok
        /\ out'.v.null =>
            LET c == out.v.col
                n == arg.ncols
                k == out'.v.bitmap_idx
            IN  /\ c < n
                /\ (c + 2) \div 8 < bitmap_len(n)
                /\ k + bitmap_len(n) <= Len(out'.v.row_data)
                /\ \A j \in 0..(8 * bitmap_len(n) - 1) :
                    BitmapBit(out'.v.row_data, k, j) =
                        IF j = c + 2 THEN 1
                        ELSE IF c = 0 THEN 0
                        ELSE BitmapBit(out.v.row_data, k, j)]_vars

\* NULL written to the seventh column of seven, after a NULL in the first:
\* the bit is the lowest of the second byte of the bitmap.
C39_Witness ==
    /\ arg.fn = "write_col"
    /\ arg.ncols = 7
    /\ out.ok
    /\ out.v.col = 7
    /\ out.v.null
    /\ out.v.row_data[out.v.bitmap_idx + 1] = 4
    /\ out.v.row_data[out.v.bitmap_idx + 2] = 1

====
